---- MODULE Spec2Model ----
(***************************************************************************)
(* SimpleConvertHHI: the Express server that uploads CSV rows as cases to  *)
(* the SimplyConvert API (src/server.js), with the duplicate check of the  *)
(* later server revision (src/unnamed/part_001).                           *)
(*                                                                         *)
(* A JavaScript string is a sequence of one-character strings, so that     *)
(* split, trim, padStart and parseInt are computed and not assumed.  A     *)
(* payload value is tagged with its JavaScript type: [t |-> "str"],        *)
(* [t |-> "arr"], [t |-> "int"].  Messages that the code only ever passes  *)
(* on whole (error texts) are TLA+ strings.                                *)
(***************************************************************************)
EXTENDS Integers, Sequences, FiniteSets, TLC

(***************************************************************************)
(* Bounds of the model                                                     *)
(***************************************************************************)
\* longest batch a request carries
MaxRows == 3

\* the longest batch of two uploads handled at the same time
MaxConcurrentRows == 2

\* the remote case service has at most this many pages to list
MaxPages == 2

\* the list calls of a request that the remote answers in any way it likes
MaxFreePages == 2

\* the list requests after which a handler that is still paging is left alone
MaxListRequests == 501

\* the requests the server has room for at once in the model
Reqs == {"a", "b"}

(***************************************************************************)
(* Program constants                                                       *)
(***************************************************************************)
RATE_LIMIT_DELAY == 400

(***************************************************************************)
(* JavaScript string helpers                                               *)
(***************************************************************************)
Last(s) == s[Len(s)]

Front(s) == SubSeq(s, 1, Len(s) - 1)

IsSpace(c) == c = " "

Digits == <<"0", "1", "2", "3", "4", "5", "6", "7", "8", "9">>

IsDigit(c) == \E d \in 1..10 : Digits[d] = c

DigitVal(c) == (CHOOSE d \in 1..10 : Digits[d] = c) - 1

RECURSIVE trimStart(_)
trimStart(s) == IF s # <<>> /\ IsSpace(Head(s)) THEN trimStart(Tail(s)) ELSE s

RECURSIVE trimEnd(_)
trimEnd(s) == IF s # <<>> /\ IsSpace(Last(s)) THEN trimEnd(Front(s)) ELSE s

trim(s) == trimEnd(trimStart(s))

\* String.prototype.split with a one-character separator: always at least
\* one part, the parts may be empty
RECURSIVE splitFrom(_, _, _)
splitFrom(s, sep, cur) ==
  IF s = <<>> THEN <<cur>>
  ELSE IF Head(s) = sep THEN <<cur>> \o splitFrom(Tail(s), sep, <<>>)
  ELSE splitFrom(Tail(s), sep, Append(cur, Head(s)))

split(s, sep) == splitFrom(s, sep, <<>>)

RECURSIVE padStart(_, _, _)
padStart(s, n, c) == IF Len(s) >= n THEN s ELSE padStart(<<c>> \o s, n, c)

\* parseInt(item, 10): leading whitespace skipped, an optional sign, then the
\* longest digit prefix; NaN when there is no digit
RECURSIVE digitPrefix(_)
digitPrefix(s) ==
  IF s # <<>> /\ IsDigit(Head(s)) THEN <<Head(s)>> \o digitPrefix(Tail(s)) ELSE <<>>

RECURSIVE digitsValue(_, _)
digitsValue(s, acc) ==
  IF s = <<>> THEN acc ELSE digitsValue(Tail(s), 10 * acc + DigitVal(Head(s)))

NaN == [t |-> "nan"]

Int_(n) == [t |-> "int", v |-> n]

parseInt(item) ==
  LET s == trimStart(item)
      neg == s # <<>> /\ Head(s) = "-"
      body == IF s # <<>> /\ Head(s) \in {"-", "+"} THEN Tail(s) ELSE s
      ds == digitPrefix(body)
  IN IF ds = <<>> THEN NaN
     ELSE Int_(IF neg THEN 0 - digitsValue(ds, 0) ELSE digitsValue(ds, 0))

(***************************************************************************)
(* mapRowToPayload and its helpers                                         *)
(***************************************************************************)
Str(s) == [t |-> "str", v |-> s]

Arr(a) == [t |-> "arr", v |-> a]

arrayFields == {"products", "conditions", "information", "tags"}

intArrayFields == {"conditions", "information"}

dateFields == {"birthday_injured", "birthday", "date_of_accident", "incident_date"}

\* a conversion that leaves month and day as they came
formatDateUnpadded(dateStr) ==
  LET parts == split(dateStr, "/")
  IN IF Len(parts) = 3
       THEN parts[3] \o <<"-">> \o parts[1] \o <<"-">> \o parts[2]
       ELSE dateStr

formatDate(dateStr) ==
  LET parts == split(dateStr, "/")
  IN IF dateStr = <<>> \/ trim(dateStr) = <<>> THEN dateStr
     ELSE IF Len(parts) = 3
       THEN parts[3] \o <<"-">> \o padStart(parts[1], 2, "0")
              \o <<"-">> \o padStart(parts[2], 2, "0")
       ELSE dateStr

\* str.replace(/^\[|\]$/g, '').trim(): the brackets go first, then the trim
cleanArrayValue(str) ==
  LET a == IF str # <<>> /\ Head(str) = "[" THEN Tail(str) ELSE str
      b == IF a # <<>> /\ Last(a) = "]" THEN Front(a) ELSE a
  IN trim(b)

mapSeq(Op(_), s) == [k \in 1..Len(s) |-> Op(s[k])]

\* a filter that keeps every item
keepNaN(s) == s

RECURSIVE dropNaN(_)
dropNaN(s) ==
  IF s = <<>> THEN <<>>
  ELSE IF Head(s) = NaN THEN dropNaN(Tail(s)) ELSE <<Head(s)>> \o dropNaN(Tail(s))

(***************************************************************************)
(* The meta field: strategy A rewrites the text towards JSON and parses    *)
(* it, strategy B splits it into key:value pairs.                          *)
(***************************************************************************)
QUOTE == "\""

RECURSIVE replaceChar(_, _, _)
replaceChar(s, c, by) ==
  IF s = <<>> THEN <<>>
  ELSE (IF Head(s) = c THEN by ELSE <<Head(s)>>) \o replaceChar(Tail(s), c, by)

\* .replace(/,\s*/g, '","')
RECURSIVE replaceCommaWs(_)
replaceCommaWs(s) ==
  IF s = <<>> THEN <<>>
  ELSE IF Head(s) = "," THEN <<QUOTE, ",", QUOTE>> \o replaceCommaWs(trimStart(Tail(s)))
  ELSE <<Head(s)>> \o replaceCommaWs(Tail(s))

\* .replace(/\s*\}/g, '"}')
RECURSIVE replaceWsBrace(_)
replaceWsBrace(s) ==
  IF s = <<>> THEN <<>>
  ELSE LET t == trimStart(s)
       IN IF t # <<>> /\ Head(t) = "}" THEN <<QUOTE, "}">> \o replaceWsBrace(Tail(t))
          ELSE <<Head(s)>> \o replaceWsBrace(Tail(s))

\* .replace(/"\s+"/g, '":"')
RECURSIVE replaceQuoteGap(_)
replaceQuoteGap(s) ==
  IF s = <<>> THEN <<>>
  ELSE LET t == trimStart(Tail(s))
       IN IF Head(s) = QUOTE /\ Len(t) < Len(s) - 1 /\ t # <<>> /\ Head(t) = QUOTE
          THEN <<QUOTE, ":", QUOTE>> \o replaceQuoteGap(Tail(t))
          ELSE <<Head(s)>> \o replaceQuoteGap(Tail(s))

metaJsonStr(metaStr) ==
  replaceQuoteGap(replaceWsBrace(replaceCommaWs(
    replaceChar(replaceChar(metaStr, "{", <<"{", QUOTE>>), ":", <<QUOTE, ":", QUOTE>>))))

\* JSON.parse: objects, arrays, strings without escapes, numbers and the
\* three literals, as a pushdown automaton.  A scan result is [ok, val, rest].
Fail == [ok |-> FALSE]

Ok(val, rest) == [ok |-> TRUE, val |-> val, rest |-> rest]

Obj(f) == [t |-> "obj", v |-> f]

IsPrefix(p, s) == Len(p) <= Len(s) /\ SubSeq(s, 1, Len(p)) = p

Drop(s, n) == SubSeq(s, n + 1, Len(s))

StartsWith(s, c) == s # <<>> /\ Head(s) = c

RECURSIVE jsonString(_, _)
jsonString(s, acc) ==
  IF s = <<>> THEN Fail
  ELSE IF Head(s) = QUOTE THEN Ok(Str(acc), Tail(s))
  ELSE IF Head(s) = "\\" THEN Fail
  ELSE jsonString(Tail(s), Append(acc, Head(s)))

\* -?(0|[1-9][0-9]*)(.[0-9]+)?([eE][+-]?[0-9]+)?: an integer keeps its value,
\* any other number is kept as its text
afterSign(s) == IF StartsWith(s, "-") THEN Tail(s) ELSE s

intPart(s) == IF StartsWith(s, "0") THEN <<"0">> ELSE digitPrefix(s)

afterFrac(s) ==
  IF StartsWith(s, ".")
    THEN (IF digitPrefix(Tail(s)) = <<>> THEN Fail
          ELSE Ok(TRUE, Drop(s, Len(digitPrefix(Tail(s))) + 1)))
    ELSE Ok(FALSE, s)

expDigits(s) == IF s # <<>> /\ Head(s) \in {"+", "-"} THEN Tail(s) ELSE s

afterExp(s) ==
  IF s # <<>> /\ Head(s) \in {"e", "E"}
    THEN (IF digitPrefix(expDigits(Tail(s))) = <<>> THEN Fail
          ELSE Ok(TRUE, Drop(expDigits(Tail(s)), Len(digitPrefix(expDigits(Tail(s)))))))
    ELSE Ok(FALSE, s)

numberValue(s, ds, frac, exp) ==
  IF ~exp.ok THEN Fail
  ELSE IF frac.val \/ exp.val
    THEN Ok([t |-> "num", v |-> SubSeq(s, 1, Len(s) - Len(exp.rest))], exp.rest)
    ELSE Ok(Int_(IF StartsWith(s, "-") THEN 0 - digitsValue(ds, 0) ELSE digitsValue(ds, 0)),
            exp.rest)

numberTail(s, ds, frac) ==
  IF ~frac.ok THEN Fail ELSE numberValue(s, ds, frac, afterExp(frac.rest))

jsonNumber(s) ==
  IF intPart(afterSign(s)) = <<>> THEN Fail
  ELSE numberTail(s, intPart(afterSign(s)),
                  afterFrac(Drop(afterSign(s), Len(intPart(afterSign(s))))))

jsonScalar(s) ==
  IF StartsWith(s, QUOTE) THEN jsonString(Tail(s), <<>>)
  ELSE IF IsPrefix(<<"t", "r", "u", "e">>, s) THEN Ok([t |-> "bool", v |-> TRUE], Drop(s, 4))
  ELSE IF IsPrefix(<<"f", "a", "l", "s", "e">>, s) THEN Ok([t |-> "bool", v |-> FALSE], Drop(s, 5))
  ELSE IF IsPrefix(<<"n", "u", "l", "l">>, s) THEN Ok([t |-> "null"], Drop(s, 4))
  ELSE jsonNumber(s)

\* the automaton: the text left, the containers still open, the value just
\* completed and what is expected next
jsonFail(st) == [st EXCEPT !.at = "fail"]

jsonDone(st, val, rest) == [st EXCEPT !.at = "after", !.val = val, !.text = rest]

jsonOpen(st, frame, next, rest) ==
  [st EXCEPT !.stack = Append(@, frame), !.at = next, !.text = rest]

jsonAtValue(st, s) ==
  IF s = <<>> THEN jsonFail(st)
  ELSE IF Head(s) = "{" THEN
    (IF StartsWith(trimStart(Tail(s)), "}")
       THEN jsonDone(st, Obj(<<>>), Tail(trimStart(Tail(s))))
       ELSE jsonOpen(st, [kind |-> "obj", acc |-> <<>>, key |-> <<>>], "key", Tail(s)))
  ELSE IF Head(s) = "[" THEN
    (IF StartsWith(trimStart(Tail(s)), "]")
       THEN jsonDone(st, Arr(<<>>), Tail(trimStart(Tail(s))))
       ELSE jsonOpen(st, [kind |-> "arr", acc |-> <<>>, key |-> <<>>], "value", Tail(s)))
  ELSE IF jsonScalar(s).ok THEN jsonDone(st, jsonScalar(s).val, jsonScalar(s).rest)
  ELSE jsonFail(st)

jsonAtKey(st, s) ==
  IF StartsWith(s, QUOTE) /\ jsonString(Tail(s), <<>>).ok
    THEN [st EXCEPT !.stack[Len(st.stack)].key = jsonString(Tail(s), <<>>).val.v,
                    !.at = "colon", !.text = jsonString(Tail(s), <<>>).rest]
    ELSE jsonFail(st)

jsonAtColon(st, s) ==
  IF StartsWith(s, ":") THEN [st EXCEPT !.at = "value", !.text = Tail(s)] ELSE jsonFail(st)

\* a repeated key keeps its last value
jsonAdd(top, val) ==
  IF top.kind = "obj"
    THEN [x \in DOMAIN top.acc \cup {top.key} |-> IF x = top.key THEN val ELSE top.acc[x]]
    ELSE Append(top.acc, val)

jsonAfter(st, s, top) ==
  IF StartsWith(s, IF top.kind = "obj" THEN "}" ELSE "]")
    THEN [st EXCEPT !.stack = Front(@), !.text = Tail(s),
                    !.val = IF top.kind = "obj" THEN Obj(jsonAdd(top, st.val))
                                                ELSE Arr(jsonAdd(top, st.val))]
  ELSE IF StartsWith(s, ",")
    THEN [st EXCEPT !.stack[Len(st.stack)].acc = jsonAdd(top, st.val), !.text = Tail(s),
                    !.at = IF top.kind = "obj" THEN "key" ELSE "value"]
  ELSE jsonFail(st)

jsonStep(st) ==
  IF st.at = "value" THEN jsonAtValue(st, trimStart(st.text))
  ELSE IF st.at = "key" THEN jsonAtKey(st, trimStart(st.text))
  ELSE IF st.at = "colon" THEN jsonAtColon(st, trimStart(st.text))
  ELSE IF st.stack # <<>> THEN jsonAfter(st, trimStart(st.text), Last(st.stack))
  ELSE IF trimStart(st.text) = <<>> THEN [st EXCEPT !.at = "ok"]
  ELSE jsonFail(st)

RECURSIVE jsonRun(_)
jsonRun(st) == IF st.at \in {"ok", "fail"} THEN st ELSE jsonRun(jsonStep(st))

JSONparse(text) ==
  [ok |-> jsonRun([text |-> text, stack |-> <<>>, val |-> <<>>, at |-> "value"]).at = "ok",
   val |-> jsonRun([text |-> text, stack |-> <<>>, val |-> <<>>, at |-> "value"]).val]

\* strategy B: .replace(/\{|\}/g, '').trim().split(',').reduce(...)
RECURSIVE metaPairs(_, _)
metaPairs(pairs, obj) ==
  IF pairs = <<>> THEN obj
  ELSE LET kv == mapSeq(trim, split(Head(pairs), ":"))
           k == kv[1]
           has == Len(kv) >= 2 /\ k # <<>> /\ kv[2] # <<>>
       IN metaPairs(Tail(pairs),
            IF has THEN [x \in DOMAIN obj \cup {k} |-> IF x = k THEN Str(kv[2]) ELSE obj[x]]
            ELSE obj)

cleanedMeta(raw) ==
  Obj(metaPairs(split(trim(replaceChar(replaceChar(raw, "{", <<>>), "}", <<>>)), ","), <<>>))

\* an exception on its way out of the expression that raised it
Thrown == [t |-> "thrown"]

\* strategy A: the text rewritten towards JSON and handed to JSON.parse,
\* which throws a SyntaxError on text that is not JSON
strategyA(raw) ==
  IF JSONparse(metaJsonStr(trim(raw))).ok
    THEN JSONparse(metaJsonStr(trim(raw))).val
    ELSE Thrown

\* strategy A with no try around it
uncaughtMeta(raw) == strategyA(raw)

\* the meta branch of mapRowToPayload: the catch of strategy A runs strategy
\* B; for a string strategy B throws nothing, so its own catch (the raw
\* string kept as the last resort) is not reached
metaValue(raw) ==
  IF strategyA(raw).t = "thrown" THEN cleanedMeta(raw) ELSE strategyA(raw)

(***************************************************************************)
(* Configuration (process.env) and mapRowToPayload                         *)
(***************************************************************************)
VARIABLE env

\* a configuration value is falsy when undefined or empty
Truthy(s) == s # <<>>

Put(payload, key, val) ==
  [k \in DOMAIN payload \cup {key} |-> IF k = key THEN val ELSE payload[k]]

\* a conversion that trims every value
trimmedValue(key, raw) == Str(trim(raw))

fieldValue(key, raw) ==
  IF key = "meta" THEN metaValue(raw)
  ELSE IF key \in arrayFields THEN
    LET cleanedArray == mapSeq(cleanArrayValue, split(raw, ","))
    IN IF key \in intArrayFields
         THEN Arr(dropNaN(mapSeq(parseInt, cleanedArray)))
         ELSE Arr(mapSeq(Str, cleanedArray))
  ELSE IF key \in dateFields THEN Str(formatDate(raw))
  ELSE Str(raw)

overrideSimple(payload, key, val) ==
  IF Truthy(val) THEN Put(payload, key, Str(val)) ELSE payload

\* an override that yields to the tags of the row
rowTagsFirst(payload) ==
  IF Truthy(env.TAGS) /\ "tags" \notin DOMAIN payload
    THEN Put(payload, "tags", Arr(<<Str(env.TAGS)>>)) ELSE payload

overrideTags(payload) ==
  IF Truthy(env.TAGS) THEN Put(payload, "tags", Arr(<<Str(env.TAGS)>>)) ELSE payload

mapRowToPayload(row) ==
  LET fromRow == [key \in {k \in DOMAIN row : row[k] # <<>>} |-> fieldValue(key, row[key])]
      p1 == overrideSimple(fromRow, "company_uuid", env.COMPANY_UUID)
      p2 == overrideSimple(p1, "referred_from_company_uuid", env.REFERRED_FROM_COMPANY_UUID)
      p3 == overrideTags(p2)
      p4 == overrideSimple(p3, "counsel", env.COUNSEL)
      p5 == overrideSimple(p4, "feesplit", env.FEESPLIT)
  IN overrideSimple(p5, "totalfee", env.TOTALFEE)

\* a validation that finds no field missing
neverMissing(payload, field) == FALSE

\* !payload.field for a payload field: undefined or the empty string
Missing(payload, field) ==
  field \notin DOMAIN payload \/ payload[field] = Str(<<>>)

(***************************************************************************)
(* Inputs of the model: configurations, rows, request bodies and the       *)
(* answers of the remote case service                                      *)
(***************************************************************************)
NoEnv ==
  [API_KEY |-> <<>>, COMPANY_UUID |-> <<>>, REFERRED_FROM_COMPANY_UUID |-> <<>>,
   TAGS |-> <<>>, COUNSEL |-> <<>>, FEESPLIT |-> <<>>, TOTALFEE |-> <<>>]

Envs ==
  { NoEnv,
    [NoEnv EXCEPT !.API_KEY = <<"k">>, !.TAGS = <<"t">>, !.COMPANY_UUID = <<"c">>] }

RowOk == [litigation_id |-> <<"7">>, status_id |-> <<"3">>, tags |-> <<"a", ",", "b">>]

RowEmptyLitigation == [litigation_id |-> <<>>, status_id |-> <<"3">>]

RowNoStatus == [litigation_id |-> <<"7">>, fname |-> <<"J">>]

RowNeither == [fname |-> <<"J">>]

RawRows == {RowOk, RowEmptyLitigation, RowNoStatus, RowNeither}

RECURSIVE SeqsUpTo(_, _)
SeqsUpTo(S, n) ==
  IF n = 0 THEN {<<>>}
  ELSE LET shorter == SeqsUpTo(S, n - 1)
       IN shorter \cup {Append(q, x) : q \in {t \in shorter : Len(t) = n - 1}, x \in S}

Batches == SeqsUpTo(RawRows, MaxRows)

\* the batches of the overlapping uploads
ConcurrentBatches == SeqsUpTo({RowOk, RowNoStatus}, MaxConcurrentRows)

\* req.body of /upload-data: no rows property, or an array of rows
Bodies(batches) == {[none |-> TRUE]} \cup {[rows |-> b] : b \in batches}

\* the data of a remote failure response: message and error are each absent,
\* empty or a text
Texts(t) == {"", t}

FailureData ==
  {<<>>} \cup {[message |-> m] : m \in Texts("Invalid litigation_id")}
         \cup {[error |-> e] : e \in Texts("Unprocessable")}
         \cup {[message |-> m, error |-> e] :
                 m \in Texts("Invalid litigation_id"), e \in Texts("Unprocessable")}

\* what an awaited axios call settles to: a response, an error that carries
\* the remote's response (with or without data), or a transport error
HttpError(status, data) ==
  [message |-> "Request failed with status code", response |-> [status |-> status, data |-> data]]

TransportErrors == {[message |-> "Network Error"], [message |-> "timeout exceeded"]}

CreateOutcomes ==
  {[ok |-> TRUE, data |-> "case"]}
    \cup {HttpError(422, d) : d \in FailureData}
    \cup {[message |-> "Request failed with status code", response |-> [status |-> 500]]}
    \cup TransportErrors

Succeeded(outcome) == "ok" \in DOMAIN outcome

NoReply == [none |-> TRUE]

\* error.response?.data?.message || error.response?.data?.error || error.message
responseData(error) ==
  IF "response" \in DOMAIN error /\ "data" \in DOMAIN error.response
    THEN error.response.data ELSE <<>>

\* the error field looked at before the message field
errorFieldFirst(error) ==
  LET data == responseData(error)
  IN IF "error" \in DOMAIN data /\ data.error # "" THEN data.error
     ELSE IF "message" \in DOMAIN data /\ data.message # "" THEN data.message
     ELSE error.message

errorMsg(error) ==
  LET data == responseData(error)
  IN IF "message" \in DOMAIN data /\ data.message # "" THEN data.message
     ELSE IF "error" \in DOMAIN data /\ data.error # "" THEN data.error
     ELSE error.message

(***************************************************************************)
(* Lists of remote case records.  A list is kept run-length encoded, a     *)
(* sequence of [c |-> record, n |-> how many times in a row], so that a    *)
(* full page of 100 records is one value.                                  *)
(***************************************************************************)
RECURSIVE length(_)
length(list) == IF list = <<>> THEN 0 ELSE Head(list).n + length(Tail(list))

\* Array.prototype.concat; a run that goes on across the seam stays one run
concat(a, b) ==
  IF a # <<>> /\ b # <<>> /\ Last(a).c = Head(b).c
    THEN Front(a) \o <<[c |-> Head(b).c, n |-> Last(a).n + Head(b).n]>> \o Tail(b)
    ELSE a \o b

some(list, P(_)) == \E k \in 1..Len(list) : list[k].n > 0 /\ P(list[k].c)

UpperCase ==
  <<"A", "B", "C", "D", "E", "F", "G", "H", "I", "J", "K", "L", "M",
    "N", "O", "P", "Q", "R", "S", "T", "U", "V", "W", "X", "Y", "Z">>

LowerCase ==
  <<"a", "b", "c", "d", "e", "f", "g", "h", "i", "j", "k", "l", "m",
    "n", "o", "p", "q", "r", "s", "t", "u", "v", "w", "x", "y", "z">>

lowerChar(c) ==
  IF \E k \in 1..26 : UpperCase[k] = c
    THEN LowerCase[CHOOSE k \in 1..26 : UpperCase[k] = c] ELSE c

toLowerCase(s) == mapSeq(lowerChar, s)

CaseJane ==
  [fname_injured |-> <<"j", "o">>, lname_injured |-> <<"d">>, email_injured |-> <<"x", "@", "y">>]

CaseBob == [fname_injured |-> <<"B">>, lname_injured |-> <<"d">>, email_injured |-> <<>>]

Pages ==
  { <<>>,
    <<[c |-> CaseJane, n |-> 1]>>,
    <<[c |-> CaseBob, n |-> 99], [c |-> CaseJane, n |-> 1]>> }

\* the data of a list response: a bare array ([array |-> page]), or an object
\* around the page
ListData ==
  {[array |-> p] : p \in Pages} \cup {[data |-> p] : p \in Pages}
        \cup {[data |-> p, hasMore |-> TRUE] : p \in Pages}
        \cup {[data |-> p, total |-> 240] : p \in Pages}

ListOutcomes ==
  {[ok |-> TRUE, data |-> d] : d \in ListData}
    \cup {HttpError(429, [message |-> "Too Many Requests"]), HttpError(502, <<>>)}
    \cup {[message |-> "Network Error"]}

(***************************************************************************)
(* The filter page (src/public/filter.js): searchCases reads the form      *)
(* and writes the query of GET /cases.  URLSearchParams and the query      *)
(* parser of Express carry every name and value of params to req.query.    *)
(***************************************************************************)
\* the parameter searchCases writes for each field of the form
searchNames ==
  [litigationId |-> "litigationId", statusId |-> "statusId", firstName |-> "firstName",
   lastName |-> "lastName", email |-> "emailAddress", phone |-> "phoneNumber",
   dateFrom |-> "createdAtStart", dateTo |-> "createdAtEnd", tags |-> "tag",
   limit |-> "limit"]

\* the fields read with .value.trim(); the dates and the limit are read as
\* they are
trimmedInputs == DOMAIN searchNames \ {"dateFrom", "dateTo", "limit"}

inputValue(form, field) ==
  IF field \in trimmedInputs THEN trim(form[field]) ELSE form[field]

\* the fields of the form that hold something
filled(form) == {field \in DOMAIN searchNames : inputValue(form, field) # <<>>}

\* const params = {}; if (inputs.x) params.y = inputs.x; ...
searchParams(form) ==
  [name \in {searchNames[field] : field \in filled(form)} |->
     inputValue(form, CHOOSE field \in DOMAIN searchNames : searchNames[field] = name)]

\* Object.keys(params).some(k => k !== 'limit'): the search is sent
searches(form) == DOMAIN searchParams(form) \ {"limit"} # {}

EmptyForm == [field \in DOMAIN searchNames |-> <<>>]

\* the forms a visitor submits
SearchForms ==
  { EmptyForm,
    [EmptyForm EXCEPT !.limit = <<"5">>],
    [EmptyForm EXCEPT !.litigationId = <<" ", "7">>, !.limit = <<"5">>],
    [EmptyForm EXCEPT !.statusId = <<"3">>, !.tags = <<"v">>],
    [EmptyForm EXCEPT !.firstName = <<"J", "o">>, !.lastName = <<"D">>,
                      !.email = <<"j", "@", "x">>],
    [EmptyForm EXCEPT !.phone = <<"5">>, !.dateFrom = <<"1">>, !.dateTo = <<"2">>] }

\* the queries the filter page sends
SearchQueries == {searchParams(form) : form \in {f \in SearchForms : searches(f)}}

\* req.query of /cases
Queries ==
  { <<>>,
    [litigation_id |-> <<"7">>, limit |-> <<"5">>],
    [status_id |-> <<"3">>],
    [status_id |-> <<"3">>, status_name |-> <<"o">>, first_name |-> <<>>] }
    \cup SearchQueries

\* the rows of a /check-duplicates body
DupJane == [fname |-> <<"J", "o">>, lname |-> <<"D">>, email |-> <<>>]

DupBlank == [fname |-> <<>>, lname |-> <<>>, email |-> <<>>, phone |-> <<"5">>]

DupNew == [fname_injured |-> <<"J", "o">>, email_injured |-> <<"n", "@", "y">>]

DupBodies ==
  {[none |-> TRUE]} \cup {[rows |-> b] : b \in SeqsUpTo({DupJane, DupBlank, DupNew}, MaxRows)}


(***************************************************************************)
(* The server: one handler frame per request in progress.  The locals of   *)
(* a handler keep their names from the source; calls, delays, pageDelays,  *)
(* mapped, paced, fresh and unpaced are history variables.                 *)
(***************************************************************************)
VARIABLES
  endpoint,   \* the route of the request in slot r
  pc,         \* where the handler of r is suspended
  rows,       \* results (/upload) or req.body.rows
  reqQuery,   \* req.query of a /cases request
  i,          \* the loop index
  processed,  \* the success collection
  failures,   \* the failure collection
  reply,      \* what the awaited call settled to, or the thrown Error
  file,       \* the temporary file of an /upload request
  res,        \* the response sent
  params,     \* the query parameters of the list call
  allCases,   \* the accumulator of the paginated fetch
  page,       \* the page cursor of the paginated fetch
  loop,       \* which of the later revisions' paginated handlers serves r
  duplicates, \* the row indices the per-row duplicate check has flagged
  calls,      \* the remote calls this request has issued, in order
  delays,     \* how many times this request invoked delay(RATE_LIMIT_DELAY)
  pageDelays, \* how many times this request invoked delay(200)
  mapped,     \* how many times this request invoked mapRowToPayload
  paced,      \* no create call was sent yet, or a whole pacing delay has run
              \* since the last one was sent
  fresh,      \* r's running delay started after the last create call was sent
  unpaced,    \* some create call was sent while paced was false
  rawRow,     \* the row handed to mapRowToPayload when it is run on its own
  mapResult   \* what that run of mapRowToPayload came to

\* the upload page in the browser (src/unnamed/part_001, lines 1-337)
VARIABLES
  csvData,           \* the parsed rows: data, selected, index
  rowCheckbox,       \* .checked of the row-checkbox of each table row
  selectAllCheckbox, \* .checked of the checkbox in the table header
  selectedCount,     \* the text "count of total selected"
  disabled,          \* uploadSelectedBtn.disabled
  hidden,            \* previewSection carries the class hidden
  click,             \* where the click handler that posted through slot r is
  posting,           \* the rows in the body of its fetch('/upload-data')
  postedFrom,        \* the Row numbers those rows had in the preview table
  resultsDiv         \* what the results area shows

page1 == <<csvData, rowCheckbox, selectAllCheckbox, selectedCount, disabled, hidden>>

preview == <<page1, click, posting, postedFrom, resultsDiv>>

\* what no handler of the server writes
fixed == <<env, rawRow, mapResult, preview>>

frame == <<rows, i, processed, failures, reply>>

fetch == <<params, allCases, page, loop, duplicates>>

history == <<calls, delays, pageDelays, mapped>>

pacing == <<paced, fresh, unpaced>>

vars == <<env, rawRow, mapResult, endpoint, reqQuery, pc, rows, i, processed, failures, reply,
          file, res,
          params, allCases, page, loop, duplicates, calls, delays, pageDelays, mapped, paced,
          fresh,
          unpaced, preview>>

NoRes == [status |-> 0]

NotMapped == [none |-> TRUE]

\* handlers that take the key for granted
keyAssumed == TRUE

\* if (!API_KEY) at the head of every handler
keyConfigured == Truthy(env.API_KEY)

\* the server after start-up, with one of the configurations
Started(envs) ==
  /\ env \in envs
  /\ endpoint = [r \in Reqs |-> "none"]
  /\ pc = [r \in Reqs |-> "idle"]
  /\ rows = [r \in Reqs |-> <<>>]
  /\ reqQuery = [r \in Reqs |-> <<>>]
  /\ i = [r \in Reqs |-> 0]
  /\ processed = [r \in Reqs |-> <<>>]
  /\ failures = [r \in Reqs |-> <<>>]
  /\ reply = [r \in Reqs |-> NoReply]
  /\ file = [r \in Reqs |-> "none"]
  /\ res = [r \in Reqs |-> NoRes]
  /\ params = [r \in Reqs |-> <<>>]
  /\ allCases = [r \in Reqs |-> <<>>]
  /\ page = [r \in Reqs |-> 0]
  /\ loop = [r \in Reqs |-> "none"]
  /\ duplicates = [r \in Reqs |-> <<>>]
  /\ calls = [r \in Reqs |-> <<>>]
  /\ delays = [r \in Reqs |-> 0]
  /\ pageDelays = [r \in Reqs |-> 0]
  /\ mapped = [r \in Reqs |-> 0]
  /\ paced = TRUE
  /\ fresh = [r \in Reqs |-> FALSE]
  /\ unpaced = FALSE
  /\ csvData = <<>>
  /\ rowCheckbox = <<>>
  /\ selectAllCheckbox = TRUE
  /\ selectedCount = [count |-> 0, of |-> 0]
  /\ disabled = FALSE
  /\ hidden = TRUE
  /\ click = [r \in Reqs |-> "none"]
  /\ posting = [r \in Reqs |-> <<>>]
  /\ postedFrom = [r \in Reqs |-> <<>>]
  /\ resultsDiv = [shows |-> "nothing"]

Init ==
  /\ Started(Envs)
  /\ rawRow = <<>>
  /\ mapResult = NotMapped

\* a request arrives in a free slot: the handler's locals are created; input
\* is req.query for /cases and the rows of the body for the other routes
Accept(r, route, input, issued) ==
  /\ pc[r] = "idle"
  /\ endpoint' = [endpoint EXCEPT ![r] = route]
  /\ rows' = [rows EXCEPT ![r] = IF route = "/cases" THEN <<>> ELSE input]
  /\ reqQuery' = [reqQuery EXCEPT ![r] = IF route = "/cases" THEN input ELSE <<>>]
  /\ i' = [i EXCEPT ![r] = 0]
  /\ processed' = [processed EXCEPT ![r] = <<>>]
  /\ failures' = [failures EXCEPT ![r] = <<>>]
  /\ reply' = [reply EXCEPT ![r] = NoReply]
  /\ delays' = [delays EXCEPT ![r] = 0]
  /\ pageDelays' = [pageDelays EXCEPT ![r] = 0]
  /\ mapped' = [mapped EXCEPT ![r] = 0]
  /\ calls' = [calls EXCEPT ![r] = issued]
  /\ allCases' = [allCases EXCEPT ![r] = <<>>]
  /\ page' = [page EXCEPT ![r] = 0]
  /\ loop' = [loop EXCEPT ![r] = "none"]
  /\ duplicates' = [duplicates EXCEPT ![r] = <<>>]

Answer(r, status, body) ==
  /\ res' = [res EXCEPT ![r] = [status |-> status, body |-> body]]
  /\ pc' = [pc EXCEPT ![r] = "done"]

\* app.post('/upload'): the checks before the CSV stream is opened
Upload(r, hasFile) ==
  /\ Accept(r, "/upload", <<>>, <<>>)
  /\ params' = [params EXCEPT ![r] = <<>>]
  /\ file' = [file EXCEPT ![r] = IF hasFile THEN "stored" ELSE "none"]
  /\ IF ~hasFile THEN Answer(r, 400, "No file uploaded.")
     ELSE IF ~keyConfigured THEN Answer(r, 500, "API key not configured.")
     ELSE /\ pc' = [pc EXCEPT ![r] = "reading"]
          /\ res' = [res EXCEPT ![r] = NoRes]
  /\ UNCHANGED <<fixed, pacing>>

\* the stream's 'end' event, after every 'data' event pushed its row
CsvEnd(r, results) ==
  /\ pc[r] = "reading"
  /\ rows' = [rows EXCEPT ![r] = results]
  /\ pc' = [pc EXCEPT ![r] = "loop"]
  /\ UNCHANGED <<fixed, endpoint, reqQuery, i, processed, failures, reply, file, res, fetch,
                 history, pacing>>

\* the stream's 'error' event
CsvError(r) ==
  /\ pc[r] = "reading"
  /\ file' = [file EXCEPT ![r] = "removed"]
  /\ Answer(r, 500, "Error reading CSV")
  /\ UNCHANGED <<fixed, endpoint, reqQuery, frame, fetch, history, pacing>>

\* app.post('/upload-data'): the checks before the loop
UploadData(r, body) ==
  /\ Accept(r, "/upload-data",
            IF keyConfigured /\ "rows" \in DOMAIN body THEN body.rows ELSE <<>>,
            <<>>)
  /\ params' = [params EXCEPT ![r] = <<>>]
  /\ file' = [file EXCEPT ![r] = "none"]
  /\ IF ~keyConfigured THEN Answer(r, 500, [message |-> "API key not configured."])
     ELSE IF "rows" \notin DOMAIN body \/ body.rows = <<>>
       THEN Answer(r, 400, [message |-> "No rows provided."])
     ELSE /\ pc' = [pc EXCEPT ![r] = "loop"]
          /\ res' = [res EXCEPT ![r] = NoRes]
  /\ UNCHANGED <<fixed, pacing>>

\* a loop that walks the rows from the last one to the first
rowFromTheEnd(r) == rows[r][Len(rows[r]) - i[r]]

\* createCase up to its await: the transformation, the two required-field
\* checks and the sending of axios.post
currentRow(r) == rows[r][i[r] + 1]

\* the two required-field checks in the opposite order
statusCheckedFirst(payload) ==
  IF Missing(payload, "status_id") THEN "Missing required field: status_id"
  ELSE IF Missing(payload, "litigation_id") THEN "Missing required field: litigation_id"
  ELSE ""

\* the message of the Error a missing required field throws, "" when none does
requiredFieldError(payload) ==
  IF Missing(payload, "litigation_id") THEN "Missing required field: litigation_id"
  ELSE IF Missing(payload, "status_id") THEN "Missing required field: status_id"
  ELSE ""

Post(r, payload) == [method |-> "POST", index |-> i[r], body |-> payload, state |-> "sent"]

CreateCase(r) ==
  /\ pc[r] = "loop"
  /\ endpoint[r] \in {"/upload", "/upload-data"}
  /\ i[r] < Len(rows[r])
  /\ mapped' = [mapped EXCEPT ![r] = @ + 1]
  /\ LET payload == mapRowToPayload(currentRow(r))
     IN IF requiredFieldError(payload) # ""
          THEN /\ reply' = [reply EXCEPT ![r] = [message |-> requiredFieldError(payload)]]
               /\ pc' = [pc EXCEPT ![r] = "settled"]
               /\ UNCHANGED <<calls, pacing>>
          ELSE /\ calls' = [calls EXCEPT ![r] = Append(@, Post(r, payload))]
               /\ pc' = [pc EXCEPT ![r] = "post"]
               /\ unpaced' = (unpaced \/ ~paced)
               /\ paced' = FALSE
               /\ fresh' = [q \in Reqs |-> FALSE]
               /\ UNCHANGED reply
  /\ UNCHANGED <<fixed, endpoint, reqQuery, rows, i, processed, failures, file, res, fetch,
                 delays, pageDelays>>

\* the remote case service settles the create call
CreateSettles(r, outcome) ==
  /\ pc[r] = "post"
  /\ reply' = [reply EXCEPT ![r] = outcome]
  /\ calls' = [calls EXCEPT ![r][Len(calls[r])].state =
                 IF Succeeded(outcome) THEN "accepted" ELSE "failed"]
  /\ pc' = [pc EXCEPT ![r] = "settled"]
  /\ UNCHANGED <<fixed, endpoint, reqQuery, rows, i, processed, failures, file, res, fetch,
                 delays, pageDelays, mapped, pacing>>

\* createCase's return or catch, then the loop body after the await: the
\* result is pushed and the delay is started unless this was the last row
result(r) ==
  IF Succeeded(reply[r])
    THEN [success |-> TRUE, index |-> i[r], data |-> reply[r].data]
    ELSE [success |-> FALSE, index |-> i[r], error |-> errorMsg(reply[r])]

\* a loop that also waits after the last row
delayAfterEveryRow(r) == i[r] < Len(rows[r])

\* a loop that takes no delay after a row that failed validation
delayAfterCallsOnly(r) ==
  /\ i[r] < Len(rows[r]) - 1
  /\ requiredFieldError(mapRowToPayload(currentRow(r))) = ""

\* if (i < rows.length - 1) await delay(RATE_LIMIT_DELAY)
MoreRows(r) == i[r] < Len(rows[r]) - 1

\* a loop that keeps the successes and drops the failures
collectSuccessOnly(collection, outcome, success) ==
  IF outcome.success /\ success THEN Append(collection, outcome) ELSE collection

\* if (result.success) processed.push(result) else failures.push(result)
collectInto(collection, outcome, success) ==
  IF outcome.success = success THEN Append(collection, outcome) ELSE collection

Collect(r) ==
  /\ pc[r] = "settled"
  /\ processed' = [processed EXCEPT ![r] = collectInto(@, result(r), TRUE)]
  /\ failures' = [failures EXCEPT ![r] = collectInto(@, result(r), FALSE)]
  /\ reply' = [reply EXCEPT ![r] = NoReply]
  /\ IF MoreRows(r)
       THEN /\ delays' = [delays EXCEPT ![r] = @ + 1]
            /\ fresh' = [fresh EXCEPT ![r] = TRUE]
            /\ pc' = [pc EXCEPT ![r] = "delay"]
            /\ UNCHANGED i
       ELSE /\ i' = [i EXCEPT ![r] = @ + 1]
            /\ pc' = [pc EXCEPT ![r] = "loop"]
            /\ UNCHANGED <<delays, fresh>>
  /\ UNCHANGED <<fixed, endpoint, reqQuery, rows, file, res, fetch, calls, pageDelays,
                 mapped, paced, unpaced>>

\* the timer of delay(RATE_LIMIT_DELAY) fires: i++ and the next iteration
DelayElapsed(r) ==
  /\ pc[r] = "delay"
  /\ i' = [i EXCEPT ![r] = @ + 1]
  /\ pc' = [pc EXCEPT ![r] = "loop"]
  /\ paced' = (paced \/ fresh[r])
  /\ fresh' = [fresh EXCEPT ![r] = FALSE]
  /\ UNCHANGED <<fixed, endpoint, reqQuery, rows, processed, failures, reply, file, res, fetch,
                 history, unpaced>>

\* a message that counts every row as a success
everyRowASuccess(r) ==
  <<"Processed ", Len(rows[r]), " rows. Success: ", Len(rows[r]),
    ", Failures: ", Len(failures[r])>>

\* the loop is over: the file is removed (/upload) and the report is sent
reportMessage(r) ==
  <<"Processed ", Len(rows[r]), " rows. Success: ", Len(processed[r]),
    ", Failures: ", Len(failures[r])>>

\* a report that numbers the rows from 0
zeroBasedFailure(f) == [row |-> f.index, error |-> f.error]

reportFailure(f) == [row |-> f.index + 1, error |-> f.error]

report(r) ==
  [message |-> reportMessage(r), failures |-> mapSeq(reportFailure, failures[r])]

Respond(r) ==
  /\ pc[r] = "loop"
  /\ endpoint[r] \in {"/upload", "/upload-data"}
  /\ i[r] >= Len(rows[r])
  /\ file' = [file EXCEPT ![r] = IF endpoint[r] = "/upload" THEN "removed" ELSE @]
  /\ Answer(r, 200, report(r))
  /\ UNCHANGED <<fixed, endpoint, reqQuery, frame, fetch, history, pacing>>

(***************************************************************************)
(* GET /cases (src/server.js): one list call, its result passed on         *)
(***************************************************************************)
Undefined == [t |-> "undefined"]

Given(obj, key) == key \in DOMAIN obj /\ obj[key] # <<>>

queryFilters ==
  {"litigation_id", "status_id", "first_name", "last_name", "email", "phone",
   "date_from", "date_to", "tags", "limit"}

casesParams(query) ==
  [key \in {f \in queryFilters : Given(query, f)} |->
     IF key = "status_id"
       THEN (IF "status_name" \in DOMAIN query THEN Str(query.status_name) ELSE Undefined)
       ELSE Str(query[key])]

Get(p) == [method |-> "GET", params |-> p, state |-> "sent"]

Cases(r, query) ==
  /\ Accept(r, "/cases", query,
            IF keyConfigured THEN <<Get(casesParams(query))>> ELSE <<>>)
  /\ file' = [file EXCEPT ![r] = "none"]
  /\ IF ~keyConfigured
       THEN /\ Answer(r, 500, [message |-> "API key not configured."])
            /\ params' = [params EXCEPT ![r] = <<>>]
       ELSE /\ params' = [params EXCEPT ![r] = casesParams(query)]
            /\ pc' = [pc EXCEPT ![r] = "list"]
            /\ res' = [res EXCEPT ![r] = NoRes]
  /\ UNCHANGED <<fixed, pacing>>

\* what a list response is turned into
responseCases(data) ==
  IF "data" \in DOMAIN data THEN data.data
  ELSE IF "array" \in DOMAIN data THEN data.array ELSE data

responseTotal(data) ==
  IF "total" \in DOMAIN data /\ data.total # 0 THEN data.total
  ELSE IF "data" \in DOMAIN data THEN length(data.data) ELSE 0

errorStatus(error) == IF "response" \in DOMAIN error THEN error.response.status ELSE 500

casesError(error) ==
  [message |-> IF "message" \in DOMAIN responseData(error) /\ responseData(error).message # ""
                 THEN responseData(error).message ELSE "Error fetching cases",
   error |-> error.message]

CasesRespond(r) ==
  /\ pc[r] = "listed"
  /\ IF Succeeded(reply[r])
       THEN Answer(r, 200, [cases |-> responseCases(reply[r].data),
                             total |-> responseTotal(reply[r].data)])
       ELSE Answer(r, errorStatus(reply[r]), casesError(reply[r]))
  /\ reply' = [reply EXCEPT ![r] = NoReply]
  /\ UNCHANGED <<fixed, endpoint, reqQuery, rows, i, processed, failures, file, fetch, history,
                 pacing>>

(***************************************************************************)
(* POST /check-duplicates with fetchAllSimplyConvertCases                  *)
(* (src/unnamed/part_001)                                                  *)
(***************************************************************************)
limit == 100

PAGE_DELAY == 200

fetchParams(p) == [limit |-> limit, page |-> p]

\* row.fname_injured || row.fname || '', lower-cased
identity(row, first, second) ==
  toLowerCase(IF Given(row, first) THEN row[first]
              ELSE IF Given(row, second) THEN row[second] ELSE <<>>)

\* matchesField with an empty component of the row matching only a record
\* that gives none
emptyMatchesEmpty(caseItem, field, value) ==
  Given(caseItem, field) /\ toLowerCase(caseItem[field]) = value

matchesField(caseItem, field, value) ==
  value = <<>> \/ (Given(caseItem, field) /\ toLowerCase(caseItem[field]) = value)

isDuplicate(row, cases) ==
  LET fname == identity(row, "fname_injured", "fname")
      lname == identity(row, "lname_injured", "lname")
      email == identity(row, "email_injured", "email")
      Matches(caseItem) ==
        /\ matchesField(caseItem, "fname_injured", fname)
        /\ matchesField(caseItem, "lname_injured", lname)
        /\ matchesField(caseItem, "email_injured", email)
  IN (fname # <<>> \/ lname # <<>> \/ email # <<>>) /\ some(cases, Matches)

\* a report that lists the last flagged row first
RECURSIVE duplicatesFromTheEnd(_, _, _)
duplicatesFromTheEnd(rs, index, cases) ==
  IF rs = <<>> THEN <<>>
  ELSE duplicatesFromTheEnd(Tail(rs), index + 1, cases)
         \o (IF isDuplicate(Head(rs), cases) THEN <<index>> ELSE <<>>)

RECURSIVE duplicatesFrom(_, _, _)
duplicatesFrom(rs, index, cases) ==
  IF rs = <<>> THEN <<>>
  ELSE (IF isDuplicate(Head(rs), cases) THEN <<index>> ELSE <<>>)
         \o duplicatesFrom(Tail(rs), index + 1, cases)

duplicatesReport(rs, cases) ==
  [duplicates |-> duplicatesFrom(rs, 0, cases),
   totalRowsChecked |-> Len(rs),
   totalExistingCases |-> length(cases)]

CheckDuplicates(r, body) ==
  LET go == keyConfigured /\ "rows" \in DOMAIN body /\ body.rows # <<>>
  IN /\ Accept(r, "/check-duplicates", IF go THEN body.rows ELSE <<>>,
               IF go THEN <<Get(fetchParams(0))>> ELSE <<>>)
     /\ file' = [file EXCEPT ![r] = "none"]
     /\ params' = [params EXCEPT ![r] = IF go THEN fetchParams(0) ELSE <<>>]
     /\ IF ~keyConfigured
          THEN Answer(r, 500, [message |-> "API key not configured.", duplicates |-> <<>>])
        ELSE IF ~go THEN Answer(r, 200, [duplicates |-> <<>>])
        ELSE /\ pc' = [pc EXCEPT ![r] = "fetch"]
             /\ res' = [res EXCEPT ![r] = NoRes]
     /\ UNCHANGED <<fixed, pacing>>

\* the page of a list response as fetchAllSimplyConvertCases reads it
pageCases(data) == IF "data" \in DOMAIN data THEN data.data ELSE <<>>

\* a loop that goes on after every page that is not empty
anyPageGoesOn(data) == length(pageCases(data)) > 0

hasMore(data) ==
  /\ length(pageCases(data)) > 0
  /\ \/ length(pageCases(data)) = limit
     \/ ("hasMore" \in DOMAIN data /\ data.hasMore = TRUE)

\* the remote case service settles a list call; it has MaxPages pages at most
ListSettles(r, outcome) ==
  /\ pc[r] \in {"list", "fetch"}
  /\ pc[r] = "fetch" /\ Succeeded(outcome) /\ hasMore(outcome.data) => page[r] + 1 < MaxPages
  /\ reply' = [reply EXCEPT ![r] = outcome]
  /\ pc' = [pc EXCEPT ![r] = IF pc[r] = "list" THEN "listed" ELSE "fetched"]
  /\ UNCHANGED <<fixed, endpoint, reqQuery, rows, i, processed, failures, file, res, fetch,
                 history, pacing>>

\* the loop body of fetchAllSimplyConvertCases after its await, and, when the
\* fetch is over or has failed, the matching and the response of the handler
FetchPage(r) ==
  /\ pc[r] = "fetched"
  /\ reply' = [reply EXCEPT ![r] = NoReply]
  /\ IF ~Succeeded(reply[r])
       THEN /\ allCases' = [allCases EXCEPT ![r] = <<>>]
            /\ Answer(r, 200, duplicatesReport(rows[r], <<>>))
            /\ UNCHANGED <<page, params, pageDelays>>
       ELSE /\ allCases' = [allCases EXCEPT ![r] = concat(@, pageCases(reply[r].data))]
            /\ page' = [page EXCEPT ![r] = @ + 1]
            /\ UNCHANGED params
            /\ IF hasMore(reply[r].data)
                 THEN /\ pc' = [pc EXCEPT ![r] = "pageDelay"]
                      /\ pageDelays' = [pageDelays EXCEPT ![r] = @ + 1]
                      /\ UNCHANGED res
                 ELSE /\ Answer(r, 200, duplicatesReport(rows[r], allCases'[r]))
                      /\ UNCHANGED pageDelays
  /\ UNCHANGED <<fixed, endpoint, reqQuery, rows, i, processed, failures, file, loop, duplicates,
                 calls, delays, mapped, pacing>>

\* the timer of delay(200) fires and the next page is requested
PageDelayElapsed(r) ==
  /\ pc[r] = "pageDelay"
  /\ params' = [params EXCEPT ![r] = fetchParams(page[r])]
  /\ calls' = [calls EXCEPT ![r] = Append(@, Get(fetchParams(page[r])))]
  /\ pc' = [pc EXCEPT ![r] = "fetch"]
  /\ UNCHANGED <<fixed, endpoint, reqQuery, rows, i, processed, failures, reply, file, res,
                 allCases, page, loop, duplicates, delays, pageDelays, mapped, pacing>>


\* the pages a remote list holds, and its answers
FullPage == <<[c |-> CaseBob, n |-> limit]>>

ShortPage == <<[c |-> CaseJane, n |-> 40]>>

PageData ==
  {[data |-> p] : p \in {<<>>, ShortPage, FullPage}}
    \cup {[data |-> p, total |-> 240] : p \in {<<>>, ShortPage, FullPage}}
    \cup {[data |-> p, last_page |-> 2] : p \in {<<>>, ShortPage, FullPage}}
    \cup {[data |-> ShortPage, hasMore |-> TRUE], [array |-> FullPage]}

PageOutcomes ==
  {[ok |-> TRUE, data |-> d] : d \in PageData}
    \cup {HttpError(429, [message |-> "Too Many Requests"]), [message |-> "Network Error"]}

FullForEver == [ok |-> TRUE, data |-> [data |-> FullPage]]

\* req.query of the paginated /cases
PagedQueries == { <<>>, [statusId |-> <<"3">>, firstName |-> <<>>] }

\* a row with white space around a name, and a row of white space only
DupPadded == [fname |-> <<" ", "J", "o", " ">>, lname |-> <<"D">>, email |-> <<>>]

DupSpaces == [fname |-> <<" ">>, lname |-> <<>>, email |-> <<" ">>]

PagedBodies ==
  {[none |-> TRUE], [rows |-> <<DupJane>>], [rows |-> <<DupBlank, DupJane>>],
   [rows |-> <<DupJane, DupNew>>], [rows |-> <<DupPadded>>], [rows |-> <<DupSpaces, DupJane>>],
   [rows |-> <<DupJane, DupJane>>]}

(***************************************************************************)
(* The paginated handlers of the later revisions: GET /cases of            *)
(* src/unnamed/part_001 and of src/unnamed/part_002, and the two           *)
(* POST /check-duplicates handlers of src/unnamed/part_002.  A handler in  *)
(* its page loop is at "request" (axios.get in flight), "response" (the    *)
(* call has settled), "between" (delay(200) running), and the per-row      *)
(* check also at "rowDelay" and "retryDelay".                              *)
(***************************************************************************)
maxRequests == 500

maxPage == 100

RETRY_DELAY == 2000

fetchAll == "part_001 fetchAllSimplyConvertCases"

casesV1 == "part_001 GET /cases"

perRow == "part_002 POST /check-duplicates"

bulk == "part_002 POST /check-duplicates, NEW FAST"

casesV2 == "part_002 GET /cases"

\* the page loop the handler of r runs
loopOf(r) ==
  IF loop[r] = "none" /\ endpoint[r] = "/check-duplicates" THEN fetchAll ELSE loop[r]

\* let page = 0 or let page = 1
firstPage(l) == IF l \in {fetchAll, casesV1} THEN 0 ELSE 1

\* data.data || data || [] in the per-row check and /cases of part_002,
\* data.data || [] elsewhere
casesOf(l, data) ==
  IF l \in {perRow, casesV2} THEN responseCases(data) ELSE pageCases(data)

\* data.total, data.last_page: a missing count is falsy
count(data, key) == IF key \in DOMAIN data THEN data[key] ELSE 0

\* the if / else if / else on total, last_page and the size of the page;
\* cursor is what the loop compares with last_page
byMetadata(data, n, all, cursor) ==
  IF count(data, "total") # 0 THEN length(all) < data.total
  ELSE IF count(data, "last_page") # 0 THEN cursor <= data.last_page
  ELSE n >= limit

\* hasMore / hasMorePages after a page: all is the accumulator with the page
\* added, p the cursor before its increment
hasMorePages(l, data, all, p) ==
  IF l \in {fetchAll, casesV1} THEN hasMore(data)
  ELSE IF l = bulk THEN byMetadata(data, length(casesOf(l, data)), all, p + 1)
  ELSE /\ length(casesOf(l, data)) > 0
       /\ byMetadata(data, length(casesOf(l, data)), all, IF l = perRow THEN p ELSE p + 1)

\* a loop whose cursor stays where it is
neverTurnsPage(l, data) == FALSE

\* page++ is inside if (cases.length > 0) in the per-row check and /cases of
\* part_002
turnsPage(l, data) == l \in {fetchAll, casesV1, bulk} \/ length(casesOf(l, data)) > 0

requestCount(r) == Len(calls[r])

\* requestCount < maxRequests at the head of the loop; if (page > 100) at its
\* foot
ceilingReached(r) ==
  \/ loop[r] = casesV1 /\ requestCount(r) >= maxRequests
  \/ loop[r] = casesV2 /\ page[r] > maxPage

optional(s) == IF Truthy(s) THEN Str(s) ELSE Undefined

\* req.query name -> name of the list parameter
queryNames ==
  [litigationId |-> "litigation_id", statusId |-> "status_id", firstName |-> "fname_injured",
   lastName |-> "lname_injured", emailAddress |-> "email_injured", phoneNumber |-> "phone",
   createdAtStart |-> "created_at_start", createdAtEnd |-> "created_at_end", tag |-> "tag"]

pagedParams(query) ==
  [key \in {"limit"} \cup {queryNames[q] : q \in {x \in DOMAIN queryNames : Given(query, x)}}
             \cup (IF Truthy(env.COMPANY_UUID) THEN {"company_uuid"} ELSE {}) |->
     IF key = "limit" THEN limit
     ELSE IF key = "company_uuid" THEN Str(env.COMPANY_UUID)
     ELSE Str(query[CHOOSE q \in DOMAIN queryNames : queryNames[q] = key])]

shortName == [fname_injured |-> "fname", lname_injured |-> "lname", email_injured |-> "email"]

\* row.fname_injured || row.fname || ''
supplied(row, field) ==
  IF Given(row, field) THEN row[field]
  ELSE IF Given(row, shortName[field]) THEN row[shortName[field]] ELSE <<>>

\* unidentified with no row taken for empty
everyRowIdentified(row) == FALSE

\* if (!fname && !lname && !email)
unidentified(row) == \A field \in DOMAIN shortName : supplied(row, field) = <<>>

rowParams(row) ==
  [key \in {"company_uuid", "limit"} \cup {f \in DOMAIN shortName : supplied(row, f) # <<>>} |->
     IF key = "limit" THEN limit
     ELSE IF key = "company_uuid" THEN optional(env.COMPANY_UUID)
     ELSE Str(supplied(row, key))]

bulkParams ==
  [company_uuid |-> optional(env.COMPANY_UUID), limit |-> limit,
   fields |-> "fname_injured,lname_injured,email_injured"]

firstParams(l, query) ==
  Put(IF l = bulk THEN bulkParams ELSE pagedParams(query), "page", firstPage(l))

\* allCases.some(...) of the per-row check
exactMatch(row, cases) ==
  LET Matches(caseItem) ==
        \A field \in DOMAIN shortName :
          \/ supplied(row, field) = <<>>
          \/ /\ Given(caseItem, field)
             /\ trim(toLowerCase(caseItem[field])) = trim(toLowerCase(supplied(row, field)))
  IN length(cases) > 0 /\ some(cases, Matches)

\* the index of the first row at or after k that the per-row check does not
\* skip, rows.length if there is none
RECURSIVE nextRow(_, _)
nextRow(rs, k) ==
  IF k >= Len(rs) \/ ~unidentified(rs[k + 1]) THEN k ELSE nextRow(rs, k + 1)

\* the locals of a paginated handler are created
Serve(r, route, l, input) ==
  /\ pc[r] = "idle"
  /\ endpoint' = [endpoint EXCEPT ![r] = route]
  /\ loop' = [loop EXCEPT ![r] = l]
  /\ rows' = [rows EXCEPT ![r] = IF route = "/cases" THEN <<>> ELSE input]
  /\ reqQuery' = [reqQuery EXCEPT ![r] = IF route = "/cases" THEN input ELSE <<>>]
  /\ processed' = [processed EXCEPT ![r] = <<>>]
  /\ failures' = [failures EXCEPT ![r] = <<>>]
  /\ reply' = [reply EXCEPT ![r] = NoReply]
  /\ file' = [file EXCEPT ![r] = "none"]
  /\ allCases' = [allCases EXCEPT ![r] = <<>>]
  /\ duplicates' = [duplicates EXCEPT ![r] = <<>>]
  /\ delays' = [delays EXCEPT ![r] = 0]
  /\ pageDelays' = [pageDelays EXCEPT ![r] = 0]
  /\ mapped' = [mapped EXCEPT ![r] = 0]

\* the per-row check turns to the first row at or after k that it does not
\* skip and requests its first page, or responds when no row is left
TurnTo(r, rs, k) ==
  /\ i' = [i EXCEPT ![r] = nextRow(rs, k)]
  /\ page' = [page EXCEPT ![r] = 1]
  /\ IF nextRow(rs, k) >= Len(rs)
       THEN /\ Answer(r, 200, [duplicates |-> duplicates[r]])
            /\ UNCHANGED <<params, calls>>
       ELSE /\ params' = [params EXCEPT ![r] = Put(rowParams(rs[nextRow(rs, k) + 1]), "page", 1)]
            /\ calls' = [calls EXCEPT ![r] = Append(@, Get(params'[r]))]
            /\ pc' = [pc EXCEPT ![r] = "request"]
            /\ UNCHANGED res

\* app.get('/cases') of part_001 and of part_002, up to the first axios.get
CasesPaged(r, l, query) ==
  /\ l \in {casesV1, casesV2}
  /\ Serve(r, "/cases", l, query)
  /\ i' = [i EXCEPT ![r] = 0]
  /\ page' = [page EXCEPT ![r] = firstPage(l)]
  /\ IF ~keyConfigured
       THEN /\ Answer(r, 500, [message |-> "API key not configured."])
            /\ UNCHANGED <<params, calls>>
       ELSE /\ params' = [params EXCEPT ![r] = firstParams(l, query)]
            /\ calls' = [calls EXCEPT ![r] = <<Get(firstParams(l, query))>>]
            /\ pc' = [pc EXCEPT ![r] = "request"]
            /\ UNCHANGED res
  /\ UNCHANGED <<fixed, pacing>>

\* the two app.post('/check-duplicates') of part_002, up to the first
\* axios.get
CheckDuplicatesPaged(r, l, body) ==
  LET go == keyConfigured /\ "rows" \in DOMAIN body /\ body.rows # <<>>
  IN /\ l \in {perRow, bulk}
     /\ Serve(r, "/check-duplicates", l, IF go THEN body.rows ELSE <<>>)
     /\ IF ~go
          THEN /\ IF ~keyConfigured
                    THEN Answer(r, 500, [message |-> "API key not configured.",
                                         duplicates |-> <<>>])
                    ELSE Answer(r, 200, [duplicates |-> <<>>])
               /\ i' = [i EXCEPT ![r] = 0]
               /\ page' = [page EXCEPT ![r] = 0]
               /\ UNCHANGED <<params, calls>>
        ELSE IF l = perRow THEN TurnTo(r, body.rows, 0)
        ELSE /\ i' = [i EXCEPT ![r] = 0]
             /\ page' = [page EXCEPT ![r] = 1]
             /\ params' = [params EXCEPT ![r] = firstParams(bulk, <<>>)]
             /\ calls' = [calls EXCEPT ![r] = <<Get(firstParams(bulk, <<>>))>>]
             /\ pc' = [pc EXCEPT ![r] = "request"]
             /\ UNCHANGED res
     /\ UNCHANGED <<fixed, pacing>>

\* the list call with what it settled to
settled(call, outcome) == Put(Put(call, "state", "settled"), "reply", outcome)

\* with this answer the handler asks again: for the next page, or for the
\* same row after a 429
goesOn(r, outcome) ==
  IF Succeeded(outcome)
    THEN hasMorePages(loopOf(r), outcome.data,
                      concat(allCases[r], casesOf(loopOf(r), outcome.data)), page[r])
    ELSE loop[r] = perRow /\ errorStatus(outcome) = 429

\* every list call of r before the one in flight got the same full page
SameFullPage(r) == \A k \in 1..(Len(calls[r]) - 1) : calls[r][k].reply = FullForEver

\* the remote case service settles the list call of a page loop.  Its first
\* MaxFreePages answers to a request are of any kind; after them it gives the
\* handler no cause to ask again, unless it is a remote that answers every
\* list call with the same full page
PageSettles(r, outcome) ==
  /\ pc[r] \in {"request", "fetch"}
  /\ IF Len(calls[r]) > MaxFreePages + 1 /\ SameFullPage(r)
       THEN outcome = FullForEver /\ Len(calls[r]) < MaxListRequests
       ELSE \/ Len(calls[r]) <= MaxFreePages
            \/ ~goesOn(r, outcome)
            \/ outcome = FullForEver /\ SameFullPage(r)
  /\ reply' = [reply EXCEPT ![r] = outcome]
  /\ calls' = [calls EXCEPT ![r][Len(calls[r])] = settled(@, outcome)]
  /\ pc' = [pc EXCEPT ![r] = IF pc[r] = "fetch" THEN "fetched" ELSE "response"]
  /\ UNCHANGED <<fixed, endpoint, reqQuery, rows, i, processed, failures, file, res, fetch,
                 delays, pageDelays, mapped, pacing>>

\* what the handler responds once its fetch is over
fetched(r, all) ==
  IF loop[r] = casesV1
    THEN [status |-> 200,
          body |-> [cases |-> all, total |-> length(all), requestsMade |-> requestCount(r)]]
  ELSE IF loop[r] = casesV2
    THEN [status |-> 200, body |-> [cases |-> all, total |-> length(all)]]
  ELSE [status |-> 500, body |-> [message |-> "pLimit is not defined", duplicates |-> <<>>]]

\* the loop is left with the accumulator all: /cases responds, the bulk check
\* builds its map and fails on pLimit, the per-row check matches its row and
\* starts delay(RATE_LIMIT_DELAY)
EndOfFetch(r, all) ==
  IF loop[r] = perRow
    THEN /\ duplicates' = [duplicates EXCEPT ![r] =
                             IF exactMatch(currentRow(r), all) THEN Append(@, i[r]) ELSE @]
         /\ delays' = [delays EXCEPT ![r] = @ + 1]
         /\ pc' = [pc EXCEPT ![r] = "rowDelay"]
         /\ UNCHANGED <<res, pageDelays>>
    ELSE /\ Answer(r, fetched(r, all).status, fetched(r, all).body)
         /\ UNCHANGED <<duplicates, delays, pageDelays>>

\* the catch of the handler
failed(r) ==
  IF loop[r] = casesV1
    THEN [status |-> 500,
          body |-> [message |-> "Error fetching cases", error |-> reply[r].message]]
  ELSE IF loop[r] = casesV2
    THEN [status |-> errorStatus(reply[r]), body |-> casesError(reply[r])]
  ELSE [status |-> 500, body |-> [message |-> reply[r].message, duplicates |-> <<>>]]

\* the loop body after its await
PageReceived(r) ==
  /\ pc[r] = "response"
  /\ reply' = [reply EXCEPT ![r] = NoReply]
  /\ IF ~Succeeded(reply[r])
       THEN IF loop[r] # perRow
              THEN /\ Answer(r, failed(r).status, failed(r).body)
                   /\ UNCHANGED <<allCases, page, params, calls, i, duplicates, delays,
                                  pageDelays>>
            ELSE IF errorStatus(reply[r]) = 429
              THEN /\ pc' = [pc EXCEPT ![r] = "retryDelay"]
                   /\ UNCHANGED <<allCases, page, params, calls, i, duplicates, delays,
                                  pageDelays, res>>
            ELSE /\ allCases' = [allCases EXCEPT ![r] = <<>>]
                 /\ TurnTo(r, rows[r], i[r] + 1)
                 /\ UNCHANGED <<duplicates, delays, pageDelays>>
       ELSE /\ allCases' = [allCases EXCEPT ![r] = concat(@, casesOf(loop[r], reply[r].data))]
            /\ page' = [page EXCEPT ![r] = IF turnsPage(loop[r], reply[r].data) THEN @ + 1 ELSE @]
            /\ UNCHANGED <<params, calls, i>>
            /\ IF hasMorePages(loop[r], reply[r].data, allCases'[r], page[r])
                 THEN /\ pc' = [pc EXCEPT ![r] = "between"]
                      /\ pageDelays' = [pageDelays EXCEPT ![r] = @ + 1]
                      /\ UNCHANGED <<res, duplicates, delays>>
                 ELSE EndOfFetch(r, allCases'[r])
  /\ UNCHANGED <<fixed, endpoint, reqQuery, rows, processed, failures, file, loop, mapped,
                 pacing>>

\* the timer of delay(200) fires: the ceiling of the loop, if it has one, is
\* tested and the next page is requested
PageDelay(r) ==
  /\ pc[r] = "between"
  /\ IF ceilingReached(r)
       THEN /\ EndOfFetch(r, allCases[r])
            /\ UNCHANGED <<params, calls>>
       ELSE /\ params' = [params EXCEPT ![r] = Put(@, "page", page[r])]
            /\ calls' = [calls EXCEPT ![r] = Append(@, Get(params'[r]))]
            /\ pc' = [pc EXCEPT ![r] = "request"]
            /\ UNCHANGED <<res, duplicates, delays, pageDelays>>
  /\ UNCHANGED <<fixed, endpoint, reqQuery, rows, i, processed, failures, reply, file, allCases, page,
                 loop, mapped, pacing>>

\* the timer of delay(RATE_LIMIT_DELAY) fires and the for loop goes on to the
\* next row, or the timer of delay(2000) fires and i-- and i++ bring the same
\* row back
\* a check that goes on to the next row after a 429 as well
rowAfterAnyDelay(r) == i[r] + 1

\* i-- and continue before the i++ of the for statement, or the i++ alone
rowAfterDelay(r) == IF pc[r] = "retryDelay" THEN i[r] ELSE i[r] + 1

RowDelayElapsed(r) ==
  /\ pc[r] \in {"rowDelay", "retryDelay"}
  /\ allCases' = [allCases EXCEPT ![r] = <<>>]
  /\ TurnTo(r, rows[r], rowAfterDelay(r))
  /\ UNCHANGED <<fixed, endpoint, reqQuery, rows, processed, failures, reply, file, loop, duplicates,
                 delays, pageDelays, mapped, pacing>>


\* the response has been sent: the handler returns, its locals are gone and
\* the slot is free for the next request
Close(r) ==
  /\ pc[r] = "done"
  /\ pc' = [pc EXCEPT ![r] = "idle"]
  /\ endpoint' = [endpoint EXCEPT ![r] = "none"]
  /\ rows' = [rows EXCEPT ![r] = <<>>]
  /\ reqQuery' = [reqQuery EXCEPT ![r] = <<>>]
  /\ i' = [i EXCEPT ![r] = 0]
  /\ processed' = [processed EXCEPT ![r] = <<>>]
  /\ failures' = [failures EXCEPT ![r] = <<>>]
  /\ file' = [file EXCEPT ![r] = "none"]
  /\ res' = [res EXCEPT ![r] = NoRes]
  /\ params' = [params EXCEPT ![r] = <<>>]
  /\ allCases' = [allCases EXCEPT ![r] = <<>>]
  /\ page' = [page EXCEPT ![r] = 0]
  /\ loop' = [loop EXCEPT ![r] = "none"]
  /\ duplicates' = [duplicates EXCEPT ![r] = <<>>]
  /\ calls' = [calls EXCEPT ![r] = <<>>]
  /\ delays' = [delays EXCEPT ![r] = 0]
  /\ pageDelays' = [pageDelays EXCEPT ![r] = 0]
  /\ mapped' = [mapped EXCEPT ![r] = 0]
  /\ UNCHANGED <<fixed, reply, pacing>>

(***************************************************************************)
(* Properties of the batch loop                                            *)
(***************************************************************************)
UploadRoutes == {"/upload", "/upload-data"}

\* the batch of r has finished: its report has been sent
Finished(r) ==
  endpoint[r] \in UploadRoutes /\ pc[r] = "done" /\ res[r].status = 200

\* how many entries of a collection are about row n (rows counted from 1)
Recorded(collection, n) ==
  Cardinality({k \in DOMAIN collection : collection[k].index + 1 = n})

\* how many create calls r has sent for row n
CreateCalls(r, n) ==
  Cardinality({k \in DOMAIN calls[r] :
                 calls[r][k].method = "POST" /\ calls[r][k].index + 1 = n})

\* the errors recorded for row n
ErrorsOf(r, n) ==
  {failures[r][k].error : k \in {j \in DOMAIN failures[r] : failures[r][j].index + 1 = n}}

Carries(payload, field) == field \in DOMAIN payload

payloadOf(r, n) == mapRowToPayload(rows[r][n])

MissingLitigation == "Missing required field: litigation_id"

MissingStatus == "Missing required field: status_id"

\* C1: when a batch upload over N rows has finished, every row 1..N is
\* recorded in exactly one of the success collection or the failure
\* collection, and successes + failures = N, whatever mix of validation
\* failures, remote rejections and transport errors the rows met.
C1_EveryRowRecordedOnce ==
  \A r \in Reqs :
    Finished(r) =>
      /\ \A n \in 1 .. Len(rows[r]) :
           Recorded(processed[r], n) + Recorded(failures[r], n) = 1
      /\ Len(processed[r]) + Len(failures[r]) = Len(rows[r])

\* a finished batch of three rows: one failed validation, one was rejected by
\* the remote and one met a transport error
C1_Witness ==
  /\ Finished("a")
  /\ Len(rows["a"]) = 3
  /\ {failures["a"][k].error : k \in DOMAIN failures["a"]}
       = {MissingStatus, "Invalid litigation_id", "Network Error"}

\* C2: in a finished batch the create call was made exactly once for every
\* row whose payload carries both litigation_id and status_id and not at all
\* for every other row, and every row was attempted, whatever happened to the
\* rows before it.
C2_OneCreatePerValidRow ==
  \A r \in Reqs :
    Finished(r) =>
      /\ mapped[r] = Len(rows[r])
      /\ \A n \in 1 .. Len(rows[r]) :
           CreateCalls(r, n) =
             IF Carries(payloadOf(r, n), "litigation_id") /\ Carries(payloadOf(r, n), "status_id")
               THEN 1 ELSE 0

\* a finished batch whose first row failed validation, whose second row was
\* rejected by the remote and whose third row was still sent and accepted
C2_Witness ==
  /\ Finished("a")
  /\ Len(rows["a"]) = 3
  /\ ErrorsOf("a", 1) = {MissingLitigation}
  /\ ErrorsOf("a", 2) = {"Unprocessable"}
  /\ Recorded(processed["a"], 3) = 1
  /\ CreateCalls("a", 1) = 0 /\ CreateCalls("a", 2) = 1 /\ CreateCalls("a", 3) = 1

\* row n of r never reached the remote and, once the batch has finished, is
\* recorded as a failure with exactly this error
RefusedWith(r, n, text) ==
  /\ CreateCalls(r, n) = 0
  /\ Finished(r) => (ErrorsOf(r, n) = {text} /\ Recorded(processed[r], n) = 0)

\* C3, as stated: a row whose payload lacks litigation_id (respectively
\* status_id) never triggers a create call and is recorded as a failure whose
\* error is exactly "Missing required field: litigation_id" (respectively
\* "Missing required field: status_id").
C3_AsStated ==
  \A r \in Reqs : \A n \in 1 .. Len(rows[r]) :
    /\ ~Carries(payloadOf(r, n), "litigation_id") => RefusedWith(r, n, MissingLitigation)
    /\ ~Carries(payloadOf(r, n), "status_id") => RefusedWith(r, n, MissingStatus)

\* C3: a row whose payload lacks litigation_id never triggers a create call
\* and is recorded as a failure whose error is exactly "Missing required
\* field: litigation_id"; a row whose payload carries litigation_id and lacks
\* status_id never triggers a create call and is recorded with exactly
\* "Missing required field: status_id".
C3_FirstMissingFieldReported ==
  \A r \in Reqs : \A n \in 1 .. Len(rows[r]) :
    /\ ~Carries(payloadOf(r, n), "litigation_id") => RefusedWith(r, n, MissingLitigation)
    /\ (Carries(payloadOf(r, n), "litigation_id") /\ ~Carries(payloadOf(r, n), "status_id"))
         => RefusedWith(r, n, MissingStatus)

\* a finished batch with a row that lacks both fields and a row that lacks
\* status_id alone
C3_Witness ==
  /\ Finished("a")
  /\ \E n, m \in 1 .. Len(rows["a"]) :
       /\ rows["a"][n] = RowNeither /\ ErrorsOf("a", n) = {MissingLitigation}
       /\ rows["a"][m] = RowNoStatus /\ ErrorsOf("a", m) = {MissingStatus}

\* the positions of the rows of r whose payload lacks status_id
LackingStatus(r) ==
  {n \in 1 .. Len(rows[r]) : ~Carries(payloadOf(r, n), "status_id")}

\* every row of r outside the positions F was sent and the remote accepted it
OthersAccepted(r, F) ==
  \A n \in (1 .. Len(rows[r])) \ F :
    \E k \in DOMAIN calls[r] :
      calls[r][k].index + 1 = n /\ calls[r][k].state = "accepted"

\* the report of r counts the successes and failures of a batch whose failed
\* rows are exactly those at the positions F, each for a missing status_id
ReportsMissingStatusAt(r, F) ==
  LET body == res[r].body
  IN /\ body.message[2] = Len(rows[r])
     /\ body.message[4] = Len(rows[r]) - Cardinality(F)
     /\ body.message[6] = Cardinality(F)
     /\ Len(body.failures) = Cardinality(F)
     /\ \A k \in DOMAIN body.failures :
          /\ body.failures[k].row \in F
          /\ body.failures[k].error = MissingStatus
     /\ \A k, l \in DOMAIN body.failures :
          k < l => body.failures[k].row < body.failures[l].row

\* C4, as stated: for a batch in which exactly the rows at positions F lack
\* status_id and the remote accepts every other row, the report counts
\* |rows| - |F| successes and |F| failures, and its failures list holds one
\* entry per position in F, ascending, with the 1-based row and the error
\* "Missing required field: status_id".
C4_AsStated ==
  \A r \in Reqs :
    (Finished(r) /\ OthersAccepted(r, LackingStatus(r)))
      => ReportsMissingStatusAt(r, LackingStatus(r))

\* C4: for a batch in which exactly the rows at positions F lack status_id,
\* each of them carrying litigation_id, and the remote accepts every other
\* row, the report counts |rows| - |F| successes and |F| failures, and its
\* failures list holds one entry per position in F, ascending, with the
\* 1-based row and the error "Missing required field: status_id".
C4_ReportOfMissingStatus ==
  \A r \in Reqs :
    (/\ Finished(r)
     /\ OthersAccepted(r, LackingStatus(r))
     /\ \A n \in LackingStatus(r) : Carries(payloadOf(r, n), "litigation_id"))
      => ReportsMissingStatusAt(r, LackingStatus(r))

\* three rows, the second without status_id: 2 successes, 1 failure at row 2
C4_Witness ==
  /\ Finished("a")
  /\ rows["a"] = <<RowOk, RowNoStatus, RowOk>>
  /\ OthersAccepted("a", {2})
  /\ res["a"].body.message[4] = 2
  /\ res["a"].body.failures = <<[row |-> 2, error |-> MissingStatus]>>

\* C5: within one batch the create calls are issued in input row order and
\* never overlap: a call for a row is sent only after every earlier row has
\* had its outcome recorded, and every call but the latest has settled.
C5_InOrderOneAtATime ==
  \A r \in Reqs : \A k \in DOMAIN calls[r] :
    calls[r][k].method = "POST" =>
      /\ calls[r][k].body = payloadOf(r, calls[r][k].index + 1)
      /\ \A j \in 1 .. k - 1 : calls[r][j].index < calls[r][k].index
      /\ \A n \in 1 .. calls[r][k].index :
           Recorded(processed[r], n) + Recorded(failures[r], n) = 1
      /\ k < Len(calls[r]) => calls[r][k].state # "sent"

\* the call for the third row is in flight after the first was accepted and
\* the second failed
C5_Witness ==
  /\ pc["a"] = "post"
  /\ Len(calls["a"]) = 3
  /\ calls["a"][1].state = "accepted"
  /\ calls["a"][2].state = "failed"
  /\ calls["a"][3].state = "sent" /\ calls["a"][3].index = 2

\* C6: at any moment at most one remote create call is in flight in the whole
\* process, for any number of upload requests handled at the same time, and
\* any two consecutive create calls sent to the remote are separated by at
\* least one full pacing delay.
C6_OneCreateInFlightPaced ==
  /\ Cardinality({r \in Reqs : pc[r] = "post"}) <= 1
  /\ ~unpaced

\* C7: for a batch of N >= 1 rows the pacing delay is invoked exactly N-1
\* times, whatever the outcomes of the rows, and a delay never runs after the
\* final row.
C7_DelayBetweenRowsOnly ==
  \A r \in Reqs :
    /\ (Finished(r) /\ Len(rows[r]) >= 1) => delays[r] = Len(rows[r]) - 1
    /\ pc[r] = "delay" => i[r] + 1 < Len(rows[r])

\* a finished batch of three rows with successes and failures and two delays
C7_Witness ==
  /\ Finished("a")
  /\ Len(rows["a"]) = 3
  /\ processed["a"] # <<>> /\ failures["a"] # <<>>
  /\ delays["a"] = 2

ReportFields == {"totalRows", "successCount", "failureCount", "failures"}

\* the failures list of the report holds one {row, error} entry per failed row
OneEntryPerFailedRow(r) ==
  LET listed == res[r].body.failures
  IN /\ Len(listed) = Len(failures[r])
     /\ \A k \in DOMAIN listed :
          /\ DOMAIN listed[k] = {"row", "error"}
          /\ listed[k].row = failures[r][k].index + 1
          /\ listed[k].error = failures[r][k].error

\* C8, as stated: the report returned for a batch is an object with the
\* fields totalRows, successCount, failureCount and failures, where totalRows
\* = successCount + failureCount and failures holds one {row, error} entry per
\* failed row.
C8_AsStated ==
  \A r \in Reqs :
    Finished(r) =>
      /\ ReportFields \subseteq DOMAIN res[r].body
      /\ res[r].body.totalRows = res[r].body.successCount + res[r].body.failureCount
      /\ OneEntryPerFailedRow(r)

\* C8: the report returned for a batch is an object with the fields message
\* and failures, where message reads "Processed N rows. Success: S, Failures:
\* F" with N the number of rows, S the number of successes, F the number of
\* failures and N = S + F, and failures holds one {row, error} entry per
\* failed row.
C8_ReportIsMessageAndFailures ==
  \A r \in Reqs :
    Finished(r) =>
      /\ DOMAIN res[r].body = {"message", "failures"}
      /\ \E N, S, F \in 0 .. Len(rows[r]) :
           /\ res[r].body.message
                = <<"Processed ", N, " rows. Success: ", S, ", Failures: ", F>>
           /\ N = Len(rows[r]) /\ S = Len(processed[r]) /\ F = Len(failures[r])
           /\ N = S + F
      /\ OneEntryPerFailedRow(r)

\* the report of three rows of which two failed
C8_Witness ==
  /\ Finished("a")
  /\ res["a"].body.message = <<"Processed ", 3, " rows. Success: ", 1, ", Failures: ", 2>>
  /\ Len(res["a"].body.failures) = 2

\* the create call of the current row of r has failed
CreateFailed(r) ==
  /\ pc[r] = "settled"
  /\ calls[r] # <<>>
  /\ Last(calls[r]).index = i[r]
  /\ Last(calls[r]).state = "failed"

\* a field of the remote's failure response that is present and non-empty
Present(error, field) ==
  /\ "response" \in DOMAIN error
  /\ "data" \in DOMAIN error.response
  /\ field \in DOMAIN error.response.data
  /\ error.response.data[field] # ""

\* the error to record for a failed create call: the message field, else the
\* error field, else the generic description
RecordedAs(error, text) ==
  /\ Present(error, "message") => text = error.response.data.message
  /\ (~Present(error, "message") /\ Present(error, "error"))
       => text = error.response.data.error
  /\ (~Present(error, "message") /\ ~Present(error, "error")) => text = error.message

\* C9: when a create call fails, the error recorded for the row is the remote
\* response's message field if present and non-empty, otherwise its error
\* field if present and non-empty, otherwise the generic description of the
\* error; a transport failure with no response yields the generic description.
C9_MostSpecificError ==
  [][\A r \in Reqs :
       (CreateFailed(r) /\ pc'[r] # "settled") =>
         /\ processed'[r] = processed[r]
         /\ Len(failures'[r]) = Len(failures[r]) + 1
         /\ Last(failures'[r]).index = i[r]
         /\ RecordedAs(reply[r], Last(failures'[r]).error)]_vars

\* an error-field-only rejection and a transport failure have been recorded,
\* and the failure of the third row carries both fields
C9_Witness ==
  /\ CreateFailed("a")
  /\ Present(reply["a"], "message") /\ Present(reply["a"], "error")
  /\ result("a").error = "Invalid litigation_id"
  /\ Len(failures["a"]) = 2
  /\ failures["a"][1].error = "Unprocessable"
  /\ failures["a"][2].error = "Network Error"

\* C10: when the API key is not configured, every endpoint (/upload,
\* /upload-data, /cases, /check-duplicates) answers with an error at once: no
\* row is transformed, no pacing delay is taken and no remote call is made.
C10_NoKeyNoWork ==
  env.API_KEY = <<>> =>
    \A r \in Reqs :
      /\ pc[r] \in {"idle", "done"}
      /\ pc[r] = "done" => res[r].status >= 400
      /\ mapped[r] = 0 /\ delays[r] = 0 /\ calls[r] = <<>>

\* without a key, a duplicate check has been answered with status 500
C10_Witness ==
  /\ env.API_KEY = <<>>
  /\ pc["a"] = "done"
  /\ endpoint["a"] = "/check-duplicates"
  /\ res["a"].status = 500
  /\ calls["a"] = <<>>

(***************************************************************************)
(* Specifications.  Handlers share no mutable state, so Spec serves the    *)
(* requests one after the other; SpecConcurrent lets two uploads overlap.  *)
(***************************************************************************)
Accepted == [ok |-> TRUE, data |-> "case"]

UploadStep(r, batches) ==
  \/ \E hasFile \in BOOLEAN : Upload(r, hasFile)
  \/ \E results \in batches : CsvEnd(r, results)
  \/ CsvError(r)
  \/ \E body \in Bodies(batches) : UploadData(r, body)
  \/ CreateCase(r)
  \/ Collect(r)
  \/ DelayElapsed(r)
  \/ Respond(r)
  \/ Close(r)

Step(r) ==
  \/ UploadStep(r, Batches)
  \/ \E outcome \in CreateOutcomes : CreateSettles(r, outcome)
  \/ \E query \in Queries : Cases(r, query)
  \/ CasesRespond(r)
  \/ \E body \in DupBodies : CheckDuplicates(r, body)
  \/ \E outcome \in ListOutcomes : ListSettles(r, outcome)
  \/ FetchPage(r)
  \/ PageDelayElapsed(r)

Next == Step("a")

Spec == Init /\ [][Next]_vars

NextConcurrent ==
  \E r \in Reqs :
    \/ UploadStep(r, ConcurrentBatches)
    \/ \E outcome \in {Accepted, [message |-> "Network Error"]} : CreateSettles(r, outcome)

SpecConcurrent == Init /\ [][NextConcurrent]_vars

\* the paginated fetches, one request at a time
StepPages(r) ==
  \/ \E l \in {casesV1, casesV2}, query \in PagedQueries : CasesPaged(r, l, query)
  \/ \E l \in {perRow, bulk}, body \in PagedBodies : CheckDuplicatesPaged(r, l, body)
  \/ \E body \in PagedBodies : CheckDuplicates(r, body)
  \/ \E outcome \in PageOutcomes : PageSettles(r, outcome)
  \/ PageReceived(r)
  \/ PageDelay(r)
  \/ RowDelayElapsed(r)
  \/ FetchPage(r)
  \/ PageDelayElapsed(r)
  \/ Close(r)

NextPages == StepPages("a")

SpecPages == Init /\ [][NextPages]_vars

(***************************************************************************)
(* mapRowToPayload run on its own: a row and a configuration are drawn,    *)
(* the function is applied once and its outcome is kept.                   *)
(***************************************************************************)
OverrideNames ==
  {"COMPANY_UUID", "REFERRED_FROM_COMPANY_UUID", "TAGS", "COUNSEL", "FEESPLIT", "TOTALFEE"}

NoOverrides == [NoEnv EXCEPT !.API_KEY = <<"k">>]

AllOverrides ==
  [API_KEY |-> <<"k">>, COMPANY_UUID |-> <<"c", "1">>,
   REFERRED_FROM_COMPANY_UUID |-> <<"r", "2">>, TAGS |-> <<"x", ",", "y">>,
   COUNSEL |-> <<"L">>, FEESPLIT |-> <<"4", "0">>, TOTALFEE |-> <<"9">>]

\* no override set, all of them set, or exactly one of them set
TransformEnvs ==
  {NoOverrides, AllOverrides}
    \cup {[NoOverrides EXCEPT ![name] = AllOverrides[name]] : name \in OverrideNames}

DateTexts ==
  { <<"3", "/", "4", "/", "2", "0", "2", "4">>,
    <<"1", "2", "/", "2", "5", "/", "2", "0", "2", "4">>,
    <<"i", "n", "v", "a", "l", "i", "d">>,
    <<"1", "/", "2">>,
    <<"/", "/">>,
    <<"1", "/", "2", "/", "3", "/", "4">> }

IntArrayTexts ==
  { <<"1", ",", "2", ",", "a", "b", "c", ",", "4">>,
    <<"a", "b", "c">>,
    <<"[", "1", ",", " ", "2", "]">>,
    <<"3", "x", ",", "-", "5">>,
    <<" ", "7">>,
    <<"1", ".", "5">> }

StringArrayTexts ==
  { <<"[", "a", ",", " ", "b", "]">>,
    <<"a", ",", " ", "[", "b", "]">>,
    <<" ", "[", "a", "]">>,
    <<"a">>,
    <<"[", " ", "a", " ", "]">>,
    <<"a", ",", ",", "b">> }

MetaTexts ==
  { <<"{", "g", "e", "n", "d", "e", "r", ":", " ", "M", "a", "l", "e", ",", " ", "a", "g", "e", ":", " ", "3", "0", "}">>,
    <<"{", "g", "e", "n", "d", "e", "r", ":", "M", "a", "l", "e", "}">>,
    <<"{", "g", "e", "n", "d", "e", "r", ":", "M", "a", "l", "e", ",", "a", "g", "e", ":", "3", "0", "}">>,
    <<"a", "b">>,
    <<"k", ":", "v", "1", ":", "v", "2">>,
    <<"k", ":", ",", ":", "v">>,
    <<"3", "0">>,
    <<"{", "a", ":", " ", "b">>,
    <<"a", ":", "1", ",", " ", "b", ":", "2">> }

PlainTexts == { <<>>, <<"J">>, <<" ">> }

RowTexts == DateTexts \cup IntArrayTexts \cup StringArrayTexts \cup MetaTexts \cup PlainTexts

RowFields ==
  dateFields \cup arrayFields \cup {"meta", "fname", "counsel", "company_uuid"}

FullRow ==
  [fname |-> <<"J">>, lname |-> <<>>, birthday |-> <<"3", "/", "4", "/", "2", "0", "2", "4">>,
   conditions |-> <<"1", ",", "2", ",", "a", "b", "c", ",", "4">>, tags |-> <<"[", "a", ",", " ", "b", "]">>,
   meta |-> <<"{", "g", "e", "n", "d", "e", "r", ":", "M", "a", "l", "e", "}">>, counsel |-> <<"J">>, totalfee |-> <<>>]

\* every text under every field name, one field at a time, and one full row
TransformRows ==
  {[k \in {key} |-> text] : key \in RowFields, text \in RowTexts} \cup {FullRow}

\* an exception of a field's conversion leaves mapRowToPayload; otherwise
\* the payload is returned
outcomeOf(converted) ==
  IF \E key \in DOMAIN converted : converted[key].t = "thrown"
    THEN [thrown |-> TRUE] ELSE [returned |-> converted]

InitTransform ==
  /\ Started(TransformEnvs)
  /\ rawRow \in TransformRows
  /\ mapResult = NotMapped

Transform ==
  /\ mapResult = NotMapped
  /\ mapResult' = outcomeOf(mapRowToPayload(rawRow))
  /\ UNCHANGED <<env, rawRow, endpoint, reqQuery, pc, frame, file, res, fetch, history, pacing,
                 preview>>

NextTransform == Transform

SpecTransform == InitTransform /\ [][NextTransform]_vars

(***************************************************************************)
(* Properties of mapRowToPayload                                           *)
(***************************************************************************)
\* mapRowToPayload has returned the payload of rawRow
Returned == "returned" \in DOMAIN mapResult

\* rawRow carries a non-empty text under this field name
Supplies(key) == key \in DOMAIN rawRow /\ rawRow[key] # <<>>

PayloadKinds == {"str", "arr", "obj", "int", "num", "bool", "null"}

\* C11: mapRowToPayload is total: for every row of string values, malformed
\* dates, arrays and meta text included, it returns a payload and never
\* raises.
C11_TransformIsTotal ==
  mapResult # NotMapped =>
    /\ Returned
    /\ \A key \in DOMAIN mapResult.returned : mapResult.returned[key].t \in PayloadKinds

\* a meta text that JSON.parse rejects has been mapped
C11_Witness ==
  /\ rawRow = [k \in {"meta"} |-> <<"{", "a", ":", " ", "b">>]
  /\ Returned
  /\ "meta" \in DOMAIN mapResult.returned

OverrideField ==
  [COMPANY_UUID |-> "company_uuid", REFERRED_FROM_COMPANY_UUID |-> "referred_from_company_uuid",
   TAGS |-> "tags", COUNSEL |-> "counsel", FEESPLIT |-> "feesplit", TOTALFEE |-> "totalfee"]

\* the payload value of a configured setting
Configured(name) ==
  IF name = "TAGS" THEN Arr(<<Str(env.TAGS)>>) ELSE Str(env[name])

\* C12: for each of the six override settings: when the setting is
\* configured non-empty the payload field holds the configured value whatever
\* the row supplied; when it is absent the payload field is exactly what the
\* row's own value produced, and is absent when the row supplied none.
C12_OverridesWin ==
  Returned =>
    \A name \in OverrideNames :
      /\ env[name] # <<>> =>
           /\ OverrideField[name] \in DOMAIN mapResult.returned
           /\ mapResult.returned[OverrideField[name]] = Configured(name)
      /\ (env[name] = <<>> /\ Supplies(OverrideField[name])) =>
           /\ OverrideField[name] \in DOMAIN mapResult.returned
           /\ mapResult.returned[OverrideField[name]]
                = fieldValue(OverrideField[name], rawRow[OverrideField[name]])
      /\ (env[name] = <<>> /\ ~Supplies(OverrideField[name])) =>
           OverrideField[name] \notin DOMAIN mapResult.returned

\* a row that supplies tags and counsel, mapped with every override set
C12_Witness ==
  /\ env = AllOverrides
  /\ rawRow = FullRow
  /\ Returned
  /\ mapResult.returned.tags = Arr(<<Str(<<"x", ",", "y">>)>>)
  /\ mapResult.returned.counsel = Str(<<"L">>)

\* the positions of the slashes of a text
Slashes(text) == {k \in DOMAIN text : text[k] = "/"}

pad2(text) ==
  IF Len(text) = 0 THEN <<"0", "0">> ELSE IF Len(text) = 1 THEN <<"0">> \o text ELSE text

\* y-mm-dd of a text m/d/y with exactly two slashes, at positions a < b
Reordered(text, a, b) ==
  SubSeq(text, b + 1, Len(text)) \o <<"-">> \o pad2(SubSeq(text, 1, a - 1))
    \o <<"-">> \o pad2(SubSeq(text, a + 1, b - 1))

\* C13: for a date field, a value that splits on '/' into exactly three
\* parts m, d, y becomes "y-mm-dd" with m and d left-padded with '0' to two
\* characters; any other value is passed through unchanged.
C13_DateReformatted ==
  Returned =>
    \A key \in dateFields :
      Supplies(key) =>
        /\ key \in DOMAIN mapResult.returned
        /\ IF Cardinality(Slashes(rawRow[key])) = 2
             THEN \E a, b \in Slashes(rawRow[key]) :
                    a < b /\ mapResult.returned[key] = Str(Reordered(rawRow[key], a, b))
             ELSE mapResult.returned[key] = Str(rawRow[key])

\* "3/4/2024" has become "2024-03-04"
C13_Witness ==
  /\ rawRow = [k \in {"birthday_injured"} |-> <<"3", "/", "4", "/", "2", "0", "2", "4">>]
  /\ Returned
  /\ mapResult.returned.birthday_injured = Str(<<"2", "0", "2", "4", "-", "0", "3", "-", "0", "4">>)

\* an item of an integer array starts, after one opening bracket, blanks and
\* a sign, with a digit
LeadsWithInteger(item) ==
  LET a == IF item # <<>> /\ Head(item) = "[" THEN Tail(item) ELSE item
      b == trimStart(a)
      c == IF b # <<>> /\ Head(b) \in {"+", "-"} THEN Tail(b) ELSE b
  IN c # <<>> /\ IsDigit(Head(c))

\* the integers the sample texts hold
IntegersOf ==
  [text \in IntArrayTexts |->
     IF text = <<"1", ",", "2", ",", "a", "b", "c", ",", "4">> THEN <<1, 2, 4>>
     ELSE IF text = <<"a", "b", "c">> THEN <<>>
     ELSE IF text = <<"[", "1", ",", " ", "2", "]">> THEN <<1, 2>>
     ELSE IF text = <<"3", "x", ",", "-", "5">> THEN <<3, -5>>
     ELSE IF text = <<" ", "7">> THEN <<7>>
     ELSE <<1>>]

\* C14: for an integer-array field the payload value is the sequence of the
\* base-10 integers of the comma-separated items in their original order,
\* every item without an integer dropped; "1,2,abc,4" gives [1,2,4] and a
\* value with no integer gives the empty array.
C14_IntegerArray ==
  Returned =>
    \A key \in intArrayFields :
      Supplies(key) =>
        /\ key \in DOMAIN mapResult.returned
        /\ mapResult.returned[key].t = "arr"
        /\ \A k \in DOMAIN mapResult.returned[key].v : mapResult.returned[key].v[k].t = "int"
        /\ Len(mapResult.returned[key].v)
             = Cardinality({k \in DOMAIN split(rawRow[key], ",") :
                              LeadsWithInteger(split(rawRow[key], ",")[k])})
        /\ rawRow[key] \in IntArrayTexts =>
             mapResult.returned[key].v
               = [k \in DOMAIN IntegersOf[rawRow[key]] |-> Int_(IntegersOf[rawRow[key]][k])]

\* "1,2,abc,4" has become [1, 2, 4]
C14_Witness ==
  /\ rawRow = [k \in {"conditions"} |-> <<"1", ",", "2", ",", "a", "b", "c", ",", "4">>]
  /\ Returned
  /\ mapResult.returned.conditions = Arr(<<Int_(1), Int_(2), Int_(4)>>)

stringArrayFields == arrayFields \ intArrayFields

\* a text without one leading '[' and one trailing ']'
Unbracketed(text) ==
  LET a == IF text # <<>> /\ Head(text) = "[" THEN Tail(text) ELSE text
  IN IF a # <<>> /\ Last(a) = "]" THEN Front(a) ELSE a

\* the field is filled from the row and not from a setting
FromTheRow(key) == Supplies(key) /\ ~(key = "tags" /\ Truthy(env.TAGS))

\* C15: for a string-array field the payload value is the sequence got by
\* splitting the raw value on commas and, for each piece, trimming the
\* surrounding whitespace and then removing one leading '[' and one trailing
\* ']'; "[a, b]" gives ["a","b"].
C15_PiecesTrimmedThenUnbracketed ==
  Returned =>
    \A key \in stringArrayFields :
      FromTheRow(key) =>
        /\ key \in DOMAIN mapResult.returned
        /\ mapResult.returned[key]
             = Arr([k \in DOMAIN split(rawRow[key], ",") |->
                      Str(Unbracketed(trim(split(rawRow[key], ",")[k])))])

\* a text with a blank at either end
Padded(text) == text # <<>> /\ (IsSpace(Head(text)) \/ IsSpace(Last(text)))

MaleAndThirty == <<"{", "g", "e", "n", "d", "e", "r", ":", " ", "M", "a", "l", "e", ",", " ", "a", "g", "e", ":", " ", "3", "0", "}">>

\* C16: a meta value in object-literal style with a space after each colon
\* and comma becomes an object whose keys and string values carry no
\* surrounding whitespace; "{gender: Male, age: 30}" gives gender = "Male"
\* and age = "30".
C16_MetaWithoutBlanks ==
  (Returned /\ Supplies("meta") /\ rawRow.meta = MaleAndThirty) =>
    /\ "meta" \in DOMAIN mapResult.returned
    /\ mapResult.returned.meta.t = "obj"
    /\ DOMAIN mapResult.returned.meta.v = {<<"g", "e", "n", "d", "e", "r">>, <<"a", "g", "e">>}
    /\ \A key \in DOMAIN mapResult.returned.meta.v :
         /\ ~Padded(key)
         /\ mapResult.returned.meta.v[key].t = "str"
         /\ ~Padded(mapResult.returned.meta.v[key].v)
    /\ mapResult.returned.meta.v[<<"g", "e", "n", "d", "e", "r">>] = Str(<<"M", "a", "l", "e">>)
    /\ mapResult.returned.meta.v[<<"a", "g", "e">>] = Str(<<"3", "0">>)

\* neither strategy gets anything out of the text: JSON.parse rejects the
\* rewritten text and no piece of it is a key:value pair
Unparsable(text) == strategyA(text) = Thrown /\ cleanedMeta(text) = Obj(<<>>)

\* C17: when the meta value cannot be parsed by either strategy, the payload
\* holds the original raw string as meta, never an empty or partial object.
C17_UnparsableMetaKeptRaw ==
  (Returned /\ Supplies("meta") /\ Unparsable(rawRow.meta)) =>
    /\ "meta" \in DOMAIN mapResult.returned
    /\ mapResult.returned.meta = Str(rawRow.meta)

(***************************************************************************)
(* Properties of the paginated fetches                                     *)
(***************************************************************************)
\* the list calls of r that the remote has answered
Answered(r) == {k \in DOMAIN calls[r] : "reply" \in DOMAIN calls[r][k]}

\* call k was answered with a page and no other field
Plain(r, k) == Succeeded(calls[r][k].reply) /\ DOMAIN calls[r][k].reply.data = {"data"}

pageSize(r, k) == length(calls[r][k].reply.data.data)

\* page k was short but not empty, the pages before it were full, and none
\* came with metadata
ShortAfterFull(r, k) ==
  /\ Plain(r, k)
  /\ 0 < pageSize(r, k)
  /\ pageSize(r, k) < limit
  /\ \A j \in 1..(k - 1) : Plain(r, j) /\ pageSize(r, j) = limit

\* the number of records the response reports
Accumulated(r) ==
  IF loopOf(r) = fetchAll THEN res[r].body.totalExistingCases ELSE res[r].body.total

\* C18: with page size 100 and a remote that sends no total or last-page
\* metadata, k full pages followed by one short non-empty page cause exactly
\* k + 1 list requests and accumulate the sum of the page sizes; an empty
\* first page causes exactly 1 request and 0 records.
C18_ShortPageEndsFetch ==
  \A r \in Reqs :
    loopOf(r) \in {fetchAll, casesV1, casesV2} =>
      /\ \A k \in Answered(r) :
           ShortAfterFull(r, k) =>
             /\ Len(calls[r]) = k
             /\ pc[r] = "done" =>
                  /\ res[r].status = 200
                  /\ Accumulated(r) = limit * (k - 1) + pageSize(r, k)
                  /\ length(allCases[r]) = Accumulated(r)
      /\ (1 \in Answered(r) /\ Plain(r, 1) /\ pageSize(r, 1) = 0) =>
           /\ Len(calls[r]) = 1
           /\ pc[r] = "done" => res[r].status = 200 /\ Accumulated(r) = 0

\* pages of 100, 100 and 40 records: 3 requests, 240 records
C18_Witness ==
  \E r \in Reqs :
    /\ loop[r] = casesV2
    /\ pc[r] = "done"
    /\ Len(calls[r]) = 3
    /\ ShortAfterFull(r, 3)
    /\ pageSize(r, 3) = 40
    /\ res[r].body.total = 240

\* r has received a page with no record in it
EmptyPage(r) ==
  /\ pc[r] \in {"response", "fetched"}
  /\ Succeeded(reply[r])
  /\ length(casesOf(loopOf(r), reply[r].data)) = 0

\* C19: in every pagination loop an empty page ends the fetch: the handler
\* goes on to respond, or to the next row, with no further list request,
\* whatever total or last_page the response carries.
C19_EmptyPageEndsFetch ==
  [][\A r \in Reqs :
       (EmptyPage(r) /\ pc'[r] # pc[r]) =>
         /\ pc'[r] \in {"done", "rowDelay"}
         /\ calls'[r] = calls[r]]_vars

\* C20: every pagination loop stops after a bounded number of list requests,
\* even against a remote that returns full pages for ever: no request issues
\* more list calls than maxRequests, the largest ceiling a handler has.
C20_BoundedRequests == \A r \in Reqs : Len(calls[r]) <= maxRequests

\* the number of records on the pages that calls 1..k of r were answered with
RECURSIVE receivedUpTo(_, _)
receivedUpTo(r, k) ==
  IF k = 0 THEN 0
  ELSE receivedUpTo(r, k - 1)
         + (IF Succeeded(calls[r][k].reply)
              THEN length(casesOf(loopOf(r), calls[r][k].reply.data))
              ELSE 0)

\* the last list request of r failed after earlier pages had brought records
FailedMidFetch(r) ==
  /\ Len(calls[r]) >= 2
  /\ Len(calls[r]) \in Answered(r)
  /\ ~Succeeded(calls[r][Len(calls[r])].reply)
  /\ receivedUpTo(r, Len(calls[r]) - 1) > 0

\* C21: when a list request fails after at least one page was accumulated,
\* the fetch stops and the response either reports the failure or reports
\* exactly the records accumulated so far; it never reports success with the
\* accumulated records dropped.
C21_FailureKeepsOrReports ==
  \A r \in Reqs :
    (pc[r] = "done" /\ loopOf(r) \in {fetchAll, casesV1, casesV2} /\ FailedMidFetch(r)) =>
      \/ res[r].status >= 400
      \/ Accumulated(r) = receivedUpTo(r, Len(calls[r]) - 1)

\* the same for the two /cases loops, which propagate the failure
C21_CasesPropagate ==
  \A r \in Reqs :
    (pc[r] = "done" /\ loopOf(r) \in {casesV1, casesV2} /\ FailedMidFetch(r)) =>
      res[r].status >= 400

C21_CasesWitness ==
  \E r \in Reqs :
    pc[r] = "done" /\ loopOf(r) = casesV2 /\ FailedMidFetch(r) /\ res[r].status = 429

\* the three components a row is identified by
components == {"fname_injured", "lname_injured", "email_injured"}

\* caseItem agrees with row on every component the row gives, letter case
\* apart
Agrees(row, caseItem) ==
  \A field \in components :
    \/ supplied(row, field) = <<>>
    \/ /\ field \in DOMAIN caseItem
       /\ toLowerCase(caseItem[field]) = toLowerCase(supplied(row, field))

\* no component of the record has white space around it
Unpadded(record) ==
  \A field \in DOMAIN record :
    field \in components \cup {"fname", "lname", "email"} => trim(record[field]) = record[field]

\* the row gives a component, none of them padded, and the records it is
\* compared with are not padded either
PlainIdentity(row, cases) ==
  /\ ~unidentified(row)
  /\ Unpadded(row)
  /\ \A k \in DOMAIN cases : Unpadded(cases[k].c)

InSeq(x, s) == \E k \in DOMAIN s : s[k] = x

\* the response of part_001 /check-duplicates flags row k (counted from 1)
FlaggedInResponse(r, k) == InSeq(k - 1, res[r].body.duplicates)

\* C22: the check flags a row exactly when some existing record matches it on
\* every non-empty component (fname, lname, email) under case-insensitive
\* equality, an empty component of the row matching anything: in the response
\* of part_001, and in the per-row check of part_002 once the records of the
\* row have been fetched.
C22_FlaggedIffSomeRecordAgrees ==
  \A r \in Reqs :
    /\ (pc[r] = "done" /\ loopOf(r) = fetchAll /\ res[r].status = 200) =>
         \A k \in DOMAIN rows[r] :
           PlainIdentity(rows[r][k], allCases[r]) =>
             (FlaggedInResponse(r, k)
                <=> \E n \in DOMAIN allCases[r] : Agrees(rows[r][k], allCases[r][n].c))
    /\ (pc[r] = "rowDelay" /\ PlainIdentity(rows[r][i[r] + 1], allCases[r])) =>
         (InSeq(i[r], duplicates[r])
            <=> \E n \in DOMAIN allCases[r] : Agrees(rows[r][i[r] + 1], allCases[r][n].c))

\* {fname "Jo", lname "D", email ""} is flagged against {jo, d, x@y} by both
\* handlers
C22_Witness ==
  \E r \in Reqs :
    /\ rows[r] = <<DupJane>>
    /\ allCases[r] = ShortPage
    /\ \/ pc[r] = "done" /\ loopOf(r) = fetchAll /\ res[r].status = 200
             /\ FlaggedInResponse(r, 1)
       \/ pc[r] = "rowDelay" /\ duplicates[r] = <<0>>

C22_WitnessPerRow ==
  \E r \in Reqs :
    rows[r] = <<DupJane>> /\ allCases[r] = ShortPage /\ pc[r] = "rowDelay"
      /\ duplicates[r] = <<0>>

C22_WitnessUnflagged ==
  \E r \in Reqs :
    /\ pc[r] = "done" /\ loopOf(r) = fetchAll /\ res[r].status = 200
    /\ rows[r] = <<DupJane, DupNew>>
    /\ allCases[r] = ShortPage
    /\ res[r].body.duplicates = <<0>>

\* fname, lname and email of the row are all empty, under either name
AllEmpty(row) ==
  \A field \in components \cup {"fname", "lname", "email"} :
    field \in DOMAIN row => row[field] = <<>>

\* C23: a row whose fname, lname and email are all empty is never flagged as
\* a duplicate, and the per-row check makes no list request for it: no request
\* is in progress for such a row and every list request of the per-row check
\* carries at least one name of the row.
C23_EmptyRowSkipped ==
  \A r \in Reqs :
    /\ (pc[r] = "done" /\ loopOf(r) = fetchAll /\ res[r].status = 200) =>
         \A k \in DOMAIN rows[r] : AllEmpty(rows[r][k]) => ~FlaggedInResponse(r, k)
    /\ loop[r] = perRow =>
         /\ \A k \in DOMAIN rows[r] : AllEmpty(rows[r][k]) => ~InSeq(k - 1, duplicates[r])
         /\ pc[r] \in {"request", "response", "between", "rowDelay", "retryDelay"} =>
              ~AllEmpty(rows[r][i[r] + 1])
         /\ calls[r] # <<>> => DOMAIN Last(calls[r]).params \cap components # {}

\* an empty row followed by a row that is a duplicate: one list request, made
\* for the second row, and only the second row flagged
C23_Witness ==
  \E r \in Reqs :
    /\ loop[r] = perRow
    /\ pc[r] = "done"
    /\ rows[r] = <<DupBlank, DupJane>>
    /\ Len(calls[r]) = 1
    /\ calls[r][1].params.fname_injured = Str(<<"J", "o">>)
    /\ duplicates[r] = <<1>>

C23_WitnessResponse ==
  \E r \in Reqs :
    /\ pc[r] = "done" /\ loopOf(r) = fetchAll /\ res[r].status = 200
    /\ rows[r] = <<DupBlank, DupJane>>
    /\ res[r].body.duplicates = <<1>>

\* a value as the claim compares it: case-folded and trimmed
normalised(value) == trim(toLowerCase(value))

\* the three components of the row are empty once normalised
Blank(row) == \A field \in components : normalised(supplied(row, field)) = <<>>

\* caseItem agrees with row on every component that is not empty once
\* normalised
AgreesNormalised(row, caseItem) ==
  \A field \in components :
    \/ normalised(supplied(row, field)) = <<>>
    \/ /\ field \in DOMAIN caseItem
       /\ normalised(caseItem[field]) = normalised(supplied(row, field))

SomeRecordAgrees(row, cases) == \E n \in DOMAIN cases : AgreesNormalised(row, cases[n].c)

\* part_001: a row is flagged exactly when it is not blank and a record
\* agrees with it after normalisation
C24_ResponseNormalised ==
  \A r \in Reqs :
    (pc[r] = "done" /\ loopOf(r) = fetchAll /\ res[r].status = 200) =>
      \A k \in DOMAIN rows[r] :
        FlaggedInResponse(r, k)
          <=> (~Blank(rows[r][k]) /\ SomeRecordAgrees(rows[r][k], allCases[r]))

\* part_002: the same for the row whose records have been fetched
C24_PerRowNormalised ==
  \A r \in Reqs :
    pc[r] = "rowDelay" =>
      (InSeq(i[r], duplicates[r])
         <=> (~Blank(rows[r][i[r] + 1]) /\ SomeRecordAgrees(rows[r][i[r] + 1], allCases[r])))

\* part_002: a blank row is skipped, no list request is made for it
C24_BlankRowSkipped ==
  \A r \in Reqs :
    (loop[r] = perRow /\ pc[r] \in {"request", "response", "between", "rowDelay", "retryDelay"})
      => ~Blank(rows[r][i[r] + 1])

\* C24: both sides of the comparison are case-folded and trimmed and the
\* all-empty skip is decided on the normalised values: " Jo " matches "jo", and
\* a row of white space only is skipped and never flagged.
C24_NormalisedIdentity ==
  C24_ResponseNormalised /\ C24_PerRowNormalised /\ C24_BlankRowSkipped

\* the per-row check flags the padded row
C24_PaddedFlaggedPerRow ==
  \E r \in Reqs :
    rows[r] = <<DupPadded>> /\ pc[r] = "rowDelay" /\ allCases[r] = ShortPage
      /\ duplicates[r] = <<0>>

\* the filters the README documents for GET /cases
documentedFilters ==
  {"litigation_id", "status_id", "first_name", "last_name", "email", "phone",
   "date_from", "date_to", "tags", "limit"}

\* the list request of r carries filter f exactly when the caller gave it, and
\* then with the caller's value
Carried(r, f) ==
  IF Given(reqQuery[r], f)
    THEN f \in DOMAIN calls[r][1].params /\ calls[r][1].params[f] = Str(reqQuery[r][f])
    ELSE f \notin DOMAIN calls[r][1].params

\* r is a /cases request of server.js that has issued its list request
CasesRequested(r) == endpoint[r] = "/cases" /\ loop[r] = "none" /\ calls[r] # <<>>

\* C25: every documented /cases filter that is present on the request is
\* carried to the remote list request with the caller's value, and a filter
\* that is absent is not sent.
C25_FiltersCarried ==
  \A r \in Reqs : CasesRequested(r) => \A f \in documentedFilters : Carried(r, f)

\* the same without status_id
C25_OtherFiltersCarried ==
  \A r \in Reqs :
    CasesRequested(r) => \A f \in documentedFilters \ {"status_id"} : Carried(r, f)

C25_OtherFiltersWitness ==
  \E r \in Reqs :
    /\ CasesRequested(r)
    /\ reqQuery[r] = [litigation_id |-> <<"7">>, limit |-> <<"5">>]
    /\ calls[r][1].params = [litigation_id |-> Str(<<"7">>), limit |-> Str(<<"5">>)]

(***************************************************************************)
(* Progress of a batch.  Node runs a continuation whose promise has        *)
(* settled and fires a timer that has expired, so the steps of the handler *)
(* and its delays are weakly fair.  axios.post is called with headers only *)
(* (src/server.js:72-77 and 281-286): without a timeout option axios waits *)
(* for the remote as long as it takes, so nothing obliges a create call to *)
(* settle and CreateSettles gets no fairness.                              *)
(***************************************************************************)
HandlerRuns(r) == CreateCase(r) \/ Collect(r) \/ DelayElapsed(r) \/ Respond(r)

Scheduling == \A r \in Reqs : WF_vars(HandlerRuns(r))

\* the batches that arrive as /upload-data requests
NextBatch ==
  \/ \E body \in Bodies(Batches) : UploadData("a", body)
  \/ CreateCase("a")
  \/ \E outcome \in CreateOutcomes : CreateSettles("a", outcome)
  \/ Collect("a")
  \/ DelayElapsed("a")
  \/ Respond("a")
  \/ Close("a")

SpecLive == Init /\ [][NextBatch]_vars /\ Scheduling

\* the same with a remote that answers every create call in the end
SpecAnswering ==
  SpecLive /\ \A r \in Reqs : WF_vars(\E outcome \in CreateOutcomes : CreateSettles(r, outcome))

\* C26: every remote call is bounded by a timeout and a create call that
\* timed out is recorded as the failure of its row, so a batch always
\* finishes and sends its report, even if the remote never answers a create
\* call: a handler that waits for a create call comes to its response.
C26_BatchAlwaysFinishes == \A r \in Reqs : (pc[r] = "post") ~> (pc[r] = "done")

\* r is a batch whose loop has not ended
InBatch(r) ==
  /\ endpoint[r] \in {"/upload", "/upload-data"}
  /\ pc[r] \in {"loop", "post", "settled", "delay"}
  /\ i[r] < Len(rows[r])

\* C27: exactly one pacing delay lies between the end of row i and the start
\* of row i + 1, also when row i failed validation and made no create call,
\* and row i + 1 does not start before the delay is over: while row i (from
\* 0) is processed exactly i delays have been started and none is running;
\* while the delay after row i runs, i + 1 delays have been started and
\* i + 1 rows have been transformed.
C27_OneDelayBetweenRows ==
  \A r \in Reqs :
    InBatch(r) =>
      /\ pc[r] = "loop" => delays[r] = i[r] /\ mapped[r] = i[r]
      /\ pc[r] \in {"post", "settled"} => delays[r] = i[r] /\ mapped[r] = i[r] + 1
      /\ pc[r] = "delay" => delays[r] = i[r] + 1 /\ mapped[r] = i[r] + 1

\* the first row failed validation, no create call was made, one delay has
\* run and the second row is about to start
C27_Witness ==
  \E r \in Reqs :
    /\ InBatch(r)
    /\ pc[r] = "loop"
    /\ i[r] = 1
    /\ calls[r] = <<>>
    /\ Len(failures[r]) = 1
    /\ delays[r] = 1

\* r has received a page with records in it
NonEmptyPage(r) ==
  /\ pc[r] = "response"
  /\ Succeeded(reply[r])
  /\ length(casesOf(loop[r], reply[r].data)) > 0

\* the page the last list request of r asked for
requested(r) == Last(calls[r]).params.page

\* what the priority order decides after the page r has received: total
\* first, then the last page, then the size of the page
ShouldContinue(r) ==
  LET data == reply[r].data
  IN IF "total" \in DOMAIN data /\ data.total # 0
       THEN length(allCases[r]) + length(casesOf(loop[r], data)) < data.total
     ELSE IF "last_page" \in DOMAIN data /\ data.last_page # 0
       THEN requested(r) < data.last_page
     ELSE length(casesOf(loop[r], data)) = limit

\* the loop goes on to another request exactly when the order says so
FollowsPriority(r) ==
  (NonEmptyPage(r) /\ pc'[r] # pc[r]) => (pc'[r] = "between" <=> ShouldContinue(r))

\* C28: after each non-empty page every pagination loop of part_002 decides
\* in one priority order: with a total, continue exactly while fewer records
\* than the total are accumulated; else with a last page L, continue exactly
\* while the page just requested is before L, so that pages 1..L are
\* requested and none beyond; else continue exactly when the page is full.
C28_OnePriorityOrder ==
  [][\A r \in Reqs : loop[r] \in {perRow, bulk, casesV2} => FollowsPriority(r)]_vars

\* the same for the bulk fetch and /cases
C28_BulkAndCases ==
  [][\A r \in Reqs : loop[r] \in {bulk, casesV2} => FollowsPriority(r)]_vars

\* the per-row check has requested a page after the last one
C28_BeyondLastPage ==
  \E r \in Reqs :
    /\ loop[r] = perRow
    /\ Len(calls[r]) = 3
    /\ requested(r) = 3
    /\ calls[r][2].reply = [ok |-> TRUE, data |-> [data |-> FullPage, last_page |-> 2]]

\* /cases has stopped after page 2 of 2
C28_StopsAtLastPage ==
  \E r \in Reqs :
    /\ loop[r] = casesV2
    /\ pc[r] = "done"
    /\ Len(calls[r]) = 2
    /\ calls[r][2].reply = [ok |-> TRUE, data |-> [data |-> FullPage, last_page |-> 2]]

\* C29: in a paginated fetch the 200 ms delay is taken between every two
\* successive list requests and never after the final one: when the fetch has
\* come to its response, the number of delays is the number of list requests
\* minus one, also when the loop stopped at its ceiling; and while the fetch
\* runs the delays never outnumber the requests.
C29_DelaysBetweenRequests ==
  \A r \in Reqs :
    (loopOf(r) \in {fetchAll, casesV1, casesV2} /\ calls[r] # <<>>) =>
      /\ pc[r] = "done" => pageDelays[r] = Len(calls[r]) - 1
      /\ pageDelays[r] \in {Len(calls[r]) - 1, Len(calls[r])}
      /\ pageDelays[r] = Len(calls[r]) => pc[r] \in {"between", "pageDelay"}

\* the same below the ceilings
C29_BelowTheCeiling ==
  \A r \in Reqs :
    (loopOf(r) \in {fetchAll, casesV1, casesV2} /\ calls[r] # <<>>
       /\ Len(calls[r]) < maxPage) =>
      /\ pc[r] = "done" => pageDelays[r] = Len(calls[r]) - 1
      /\ pageDelays[r] = Len(calls[r]) => pc[r] \in {"between", "pageDelay"}

\* three requests, two delays
C29_BelowWitness ==
  \E r \in Reqs :
    loop[r] = casesV2 /\ pc[r] = "done" /\ Len(calls[r]) = 3 /\ pageDelays[r] = 2

\* /cases of part_002 has stopped at its ceiling after as many delays as
\* requests
C29_DelayAtTheCeiling ==
  \E r \in Reqs :
    loop[r] = casesV2 /\ pc[r] = "done" /\ Len(calls[r]) = maxPage
      /\ pageDelays[r] = maxPage

\* the records of the pages that calls 1..k of r were answered with, joined
\* in the order of the requests
RECURSIVE pagesUpTo(_, _)
pagesUpTo(r, k) ==
  IF k = 0 THEN <<>>
  ELSE concat(pagesUpTo(r, k - 1),
              IF Succeeded(calls[r][k].reply)
                THEN casesOf(loopOf(r), calls[r][k].reply.data) ELSE <<>>)

\* how many of the pages requested by r the loop body has dealt with
pagesTaken(r) ==
  IF pc[r] \in {"request", "response", "fetch", "fetched"}
    THEN Len(calls[r]) - 1 ELSE Len(calls[r])

\* r is a fetch over all pages
WholeFetch(r) == loopOf(r) \in {fetchAll, casesV1, casesV2, bulk} /\ calls[r] # <<>>

\* request k of r asks for page base + k - 1
CursorInOrder(r) ==
  WholeFetch(r) =>
    \A k \in DOMAIN calls[r] : calls[r][k].params.page = firstPage(loopOf(r)) + k - 1

\* the accumulator is the pages so far joined in the order of their requests,
\* computed afresh for the first pages of a fetch that no failure has ended
JoinedInOrder(r) ==
  (/\ WholeFetch(r)
   /\ Len(calls[r]) <= MaxFreePages + 2
   /\ pc[r] = "done" => Succeeded(Last(calls[r]).reply))
    => allCases[r] = pagesUpTo(r, pagesTaken(r))

\* a step of the fetch adds the page received at the end of the accumulator
\* and no other step changes the accumulator
PageAppended(r) ==
  (WholeFetch(r) /\ pc'[r] # "idle") =>
    IF pc[r] \in {"response", "fetched"} /\ pc'[r] # pc[r]
      THEN Succeeded(reply[r]) =>
             allCases'[r] = concat(allCases[r], casesOf(loopOf(r), reply[r].data))
      ELSE allCases'[r] = allCases[r]

\* C30: the cursor starts at the base of the loop and grows by one with each
\* request, so that no page is requested twice and none is skipped, and after
\* k requests the accumulator is the concatenation, in the order of the
\* requests, of the records of the first k pages: each page received is added
\* at the end and nothing else changes the accumulator.
C30_PagesInOrder ==
  [][\A r \in Reqs : CursorInOrder(r)' /\ JoinedInOrder(r)' /\ PageAppended(r)]_vars

\* pages 1, 2 and 3 with 100, 100 and 40 records, accumulated in that order
C30_Witness ==
  \E r \in Reqs :
    /\ loop[r] = casesV2
    /\ pc[r] = "done"
    /\ Len(calls[r]) = 3
    /\ calls[r][3].params.page = 3
    /\ allCases[r] = <<[c |-> CaseBob, n |-> 200], [c |-> CaseJane, n |-> 40]>>

\* a lookup of r failed for good: a list request failed and was not retried
LookupFailed(r) ==
  \E k \in Answered(r) :
    /\ ~Succeeded(calls[r][k].reply)
    /\ loopOf(r) = perRow => errorStatus(calls[r][k].reply) # 429

\* the response has the shape of a check that was carried through: status 200
\* and nothing but the fields of a completed check
LooksComplete(r) ==
  /\ res[r].status = 200
  /\ DOMAIN res[r].body \subseteq {"duplicates", "totalRowsChecked", "totalExistingCases"}

\* C31: a duplicate check never presents a failed lookup as a completed
\* answer: when the fetch of the existing cases (part_001) or the lookup of a
\* row (per-row check of part_002) has failed, the response differs from the
\* response of a check that examined everything.
C31_FailureIsVisible ==
  \A r \in Reqs :
    (pc[r] = "done" /\ loopOf(r) \in {fetchAll, perRow} /\ LookupFailed(r))
      => ~LooksComplete(r)

\* part_001 answers a failed fetch as it answers a remote without cases
C31_AsIfNoCases ==
  \E r \in Reqs :
    /\ pc[r] = "done" /\ loopOf(r) = fetchAll /\ LookupFailed(r)
    /\ rows[r] = <<DupJane>>
    /\ res[r] = [status |-> 200, body |-> duplicatesReport(<<DupJane>>, <<>>)]

\* the per-row check answers a failed lookup as it answers a row without match
C31_AsIfNoMatch ==
  \E r \in Reqs :
    /\ pc[r] = "done" /\ loop[r] = perRow /\ LookupFailed(r)
    /\ rows[r] = <<DupJane>>
    /\ res[r] = [status |-> 200, body |-> [duplicates |-> <<>>]]

\* the same two responses after checks that failed nowhere
C31_CleanTwin ==
  \E r \in Reqs :
    /\ pc[r] = "done" /\ ~LookupFailed(r) /\ rows[r] = <<DupJane>>
    /\ \/ loopOf(r) = fetchAll
             /\ res[r] = [status |-> 200, body |-> duplicatesReport(<<DupJane>>, <<>>)]
       \/ loop[r] = perRow /\ res[r] = [status |-> 200, body |-> [duplicates |-> <<>>]]

\* the indices are row indices from 0, each at most once, in ascending order
Ascending(indices, n) ==
  /\ \A k \in DOMAIN indices : indices[k] \in 0..(n - 1)
  /\ \A j, k \in DOMAIN indices : j < k => indices[j] < indices[k]

\* some lookup of r was answered with 429
Retried(r) ==
  \E k \in Answered(r) :
    ~Succeeded(calls[r][k].reply) /\ errorStatus(calls[r][k].reply) = 429

\* C32: the duplicates list of /check-duplicates holds each flagged row index
\* (from 0) exactly once and in ascending order, also when several records
\* match a row and when the lookup of a row was retried after a 429.
C32_FlaggedOnceAscending ==
  \A r \in Reqs :
    /\ loop[r] = perRow => Ascending(duplicates[r], Len(rows[r]))
    /\ (pc[r] = "done" /\ loopOf(r) \in {fetchAll, perRow} /\ res[r].status = 200) =>
         Ascending(res[r].body.duplicates, Len(rows[r]))

\* two rows, each matched by 40 records, the first looked up again after a
\* 429: both flagged once
C32_Witness ==
  \E r \in Reqs :
    /\ loop[r] = perRow
    /\ pc[r] = "done"
    /\ rows[r] = <<DupJane, DupJane>>
    /\ Retried(r)
    /\ res[r].body.duplicates = <<0, 1>>

C32_WitnessResponse ==
  \E r \in Reqs :
    /\ loopOf(r) = fetchAll /\ pc[r] = "done"
    /\ allCases[r] = ShortPage
    /\ res[r].body.duplicates = <<0, 1>>

(***************************************************************************)
(* Progress of the per-row duplicate check.  The steps of the handler and  *)
(* its timers are weakly fair, and so is the settling of a list request:   *)
(* axios.get is called with timeout: 30000 (src/unnamed/part_002:101), so  *)
(* every list request is answered or fails.  The remote of this            *)
(* specification ends every listing and answers 429 finitely often.        *)
(***************************************************************************)
EndingOutcomes == PageOutcomes \ {FullForEver}

NextLookups ==
  \/ \E body \in PagedBodies : CheckDuplicatesPaged("a", perRow, body)
  \/ \E outcome \in EndingOutcomes : PageSettles("a", outcome)
  \/ PageReceived("a")
  \/ PageDelay("a")
  \/ RowDelayElapsed("a")
  \/ Close("a")

LookupRuns(r) ==
  \/ \E outcome \in EndingOutcomes : PageSettles(r, outcome)
  \/ PageReceived(r)
  \/ PageDelay(r)
  \/ RowDelayElapsed(r)

SpecLookups == Init /\ [][NextLookups]_vars /\ \A r \in Reqs : WF_vars(LookupRuns(r))

\* the lookup of a row has failed and the handler is about to deal with it
LookupError(r) == loop[r] = perRow /\ pc[r] = "response" /\ ~Succeeded(reply[r])

\* a 429 leads to the wait and from there to the first page of the same row;
\* any other error leads on to a later row or to the response
RetryOrMoveOn(r) ==
  /\ (LookupError(r) /\ pc'[r] # pc[r]) =>
       IF errorStatus(reply[r]) = 429
         THEN pc'[r] = "retryDelay" /\ i'[r] = i[r] /\ calls'[r] = calls[r]
         ELSE pc'[r] \in {"request", "done"} /\ i'[r] > i[r]
  /\ (loop[r] = perRow /\ pc[r] = "retryDelay" /\ pc'[r] # pc[r]) =>
       /\ pc'[r] = "request"
       /\ i'[r] = i[r]
       /\ Len(calls'[r]) = Len(calls[r]) + 1
       /\ Last(calls'[r]).params = Put(rowParams(rows[r][i[r] + 1]), "page", 1)

keyed(cases, email) ==
  {k \in DOMAIN cases :
     Given(cases[k].c, "email_injured") /\ toLowerCase(cases[k].c.email_injured) = email}

\* caseMap.get(email): the last record stored under the key
caseMapGet(cases, email) ==
  LET last == CHOOSE k \in keyed(cases, email) : \A j \in keyed(cases, email) : j <= k
  IN cases[last].c

\* the body of a task: the row is flagged when the record with its e-mail has
\* its two names
emailKeyed(row, cases) ==
  LET fname == identity(row, "fname_injured", "fname")
      lname == identity(row, "lname_injured", "lname")
      email == identity(row, "email_injured", "email")
  IN /\ fname # <<>> \/ lname # <<>> \/ email # <<>>
     /\ keyed(cases, email) # {}
     /\ toLowerCase(caseMapGet(cases, email).fname_injured) = fname
     /\ toLowerCase(caseMapGet(cases, email).lname_injured) = lname

RECURSIVE emailKeyedFrom(_, _, _)
emailKeyedFrom(rs, index, cases) ==
  IF rs = <<>> THEN <<>>
  ELSE (IF emailKeyed(Head(rs), cases) THEN <<index>> ELSE <<>>)
         \o emailKeyedFrom(Tail(rs), index + 1, cases)

\* r is a bulk check whose fetch of the existing cases has succeeded
BulkChecked(r) ==
  /\ loop[r] = bulk
  /\ pc[r] = "done"
  /\ calls[r] # <<>>
  /\ Succeeded(Last(calls[r]).reply)

\* C34: the bulk check keyed by e-mail returns the same flagged row indices
\* as the rule that takes an empty component for a wildcard, for all rows and
\* existing records, rows with an empty e-mail included.
C34_BulkAgreesWithWildcard ==
  \A r \in Reqs :
    BulkChecked(r) =>
      /\ res[r].status = 200
      /\ res[r].body.duplicates = duplicatesFrom(rows[r], 0, allCases[r])

\* the same for the matching alone, as if the handler reached it
C34_MatchingAgrees ==
  \A r \in Reqs :
    BulkChecked(r) =>
      emailKeyedFrom(rows[r], 0, allCases[r]) = duplicatesFrom(rows[r], 0, allCases[r])

\* a row without e-mail that the wildcard rule flags and the map misses
C34_EmptyEmailMissed ==
  \E r \in Reqs :
    /\ BulkChecked(r)
    /\ rows[r] = <<DupJane, DupNew>>
    /\ emailKeyedFrom(rows[r], 0, allCases[r]) = <<>>
    /\ duplicatesFrom(rows[r], 0, allCases[r]) = <<0>>

\* the payload fields of the overrides that are configured
OverriddenFields == {OverrideField[name] : name \in {n \in OverrideNames : env[n] # <<>>}}

\* a field name without a rule of its own
PlainField(key) == key \notin arrayFields \cup dateFields \cup {"meta"}

\* C35: the fields of the payload are exactly the fields of the row whose
\* raw value is not the empty string, together with the fields of the
\* configured overrides; a field with an empty value never comes from the
\* row, and a field without a special rule that is not overridden carries its
\* raw string unchanged.
C35_NonEmptyFieldsPassThrough ==
  Returned =>
    /\ DOMAIN mapResult.returned
         = {key \in DOMAIN rawRow : rawRow[key] # <<>>} \cup OverriddenFields
    /\ \A key \in DOMAIN rawRow :
         (rawRow[key] # <<>> /\ PlainField(key) /\ key \notin OverriddenFields) =>
           mapResult.returned[key] = Str(rawRow[key])

\* the full row: the empty lname and totalfee are left out, fname is passed
\* on as it is, and a configured override adds its field
C35_Witness ==
  /\ Returned
  /\ rawRow = FullRow
  /\ env.COMPANY_UUID # <<>>
  /\ env.TOTALFEE = <<>>
  /\ "lname" \notin DOMAIN mapResult.returned
  /\ "totalfee" \notin DOMAIN mapResult.returned
  /\ "company_uuid" \in DOMAIN mapResult.returned
  /\ mapResult.returned.fname = Str(<<"J">>)

\* a value of one blank is not empty and is passed on untrimmed
C35_BlankKept ==
  /\ Returned
  /\ rawRow = [fname |-> <<" ">>]
  /\ mapResult.returned.fname = Str(<<" ">>)

\* the comma-separated pairs that strategy B is given
PairsOf(text) == split(trim(replaceChar(replaceChar(text, "{", <<>>), "}", <<>>)), ",")

Colons(pair) == {k \in DOMAIN pair : pair[k] = ":"}

firstColon(pair) == CHOOSE k \in Colons(pair) : \A j \in Colons(pair) : k <= j

\* the two sides of a pair split at its first colon, trimmed
keySide(pair) == trim(SubSeq(pair, 1, firstColon(pair) - 1))

valueSide(pair) == trim(SubSeq(pair, firstColon(pair) + 1, Len(pair)))

\* the pair has a colon and something on both sides of the first one
Kept(pair) == Colons(pair) # {} /\ keySide(pair) # <<>> /\ valueSide(pair) # <<>>

\* the object that the pairs of the text make: each kept pair gives its key
\* the value after the first colon, a later pair replacing an earlier one
MadeOf(text, obj) ==
  LET pairs == PairsOf(text)
      kept == {n \in DOMAIN pairs : Kept(pairs[n])}
  IN /\ DOMAIN obj = {keySide(pairs[n]) : n \in kept}
     /\ \A n \in kept :
          (\A m \in kept : keySide(pairs[m]) = keySide(pairs[n]) => m <= n)
            => obj[keySide(pairs[n])] = Str(valueSide(pairs[n]))

\* the meta of rawRow is handled by strategy B
ByStrategyB == Returned /\ Supplies("meta") /\ strategyA(rawRow.meta) = Thrown

\* C36: when strategy B handles the meta value, each comma-separated pair is
\* split at its first colon only, both sides are trimmed and the pair is kept
\* only if both sides are non-empty: "k:v1:v2" gives key "k" the value
\* "v1:v2"; a pair without a colon or with an empty side is discarded.
C36_SplitAtFirstColon ==
  ByStrategyB =>
    /\ mapResult.returned.meta.t = "obj"
    /\ MadeOf(rawRow.meta, mapResult.returned.meta.v)

\* the same for texts whose pairs have one colon at most
C36_OneColonPairs ==
  (ByStrategyB /\ \A n \in DOMAIN PairsOf(rawRow.meta) :
                    Cardinality(Colons(PairsOf(rawRow.meta)[n])) <= 1) =>
    /\ mapResult.returned.meta.t = "obj"
    /\ MadeOf(rawRow.meta, mapResult.returned.meta.v)

\* "a:1, b:2" has become {a: "1", b: "2"}
C36_OneColonWitness ==
  /\ ByStrategyB
  /\ rawRow.meta = <<"a", ":", "1", ",", " ", "b", ":", "2">>
  /\ mapResult.returned.meta = Obj([key \in {<<"a">>, <<"b">>} |->
                                      IF key = <<"a">> THEN Str(<<"1">>) ELSE Str(<<"2">>)])

\* "k:v1:v2" has become {k: "v1"}
C36_SecondColonCutsValue ==
  /\ ByStrategyB
  /\ rawRow.meta = <<"k", ":", "v", "1", ":", "v", "2">>
  /\ mapResult.returned.meta = Obj([key \in {<<"k">>} |-> Str(<<"v", "1">>)])

(***************************************************************************)
(* C38: the temporary file of an /upload request                           *)
(***************************************************************************)
\* an /upload request that received a file and has been answered
UploadAnswered(r) ==
  endpoint[r] = "/upload" /\ pc[r] = "done" /\ file[r] # "none"

\* C38: every /upload request that received a file has had its temporary
\* file removed by the time its response is sent, whatever the path that
\* led to the response (report, processing error, CSV read error, missing
\* API key)
C38_FileRemovedOnEveryPath ==
  \A r \in Reqs : UploadAnswered(r) => file[r] = "removed"

\* the paths that open the CSV stream do remove the file: the report and the
\* CSV read error
C38_RemovedOnceStreamOpened ==
  \A r \in Reqs : UploadAnswered(r) /\ keyConfigured => file[r] = "removed"

\* an upload answered "API key not configured." with its file still stored
C38_KeyMissingLeavesFile ==
  \E r \in Reqs :
    /\ UploadAnswered(r)
    /\ res[r] = [status |-> 500, body |-> "API key not configured."]
    /\ file[r] = "stored"

(***************************************************************************)
(* C39: the search criteria of the filter page on their way to the remote  *)
(***************************************************************************)
\* the list request of r carries the value of a field of the form
SentToRemote(r, form, field) ==
  \E key \in DOMAIN calls[r][1].params :
    calls[r][1].params[key] = Str(inputValue(form, field))

\* r is a /cases request that the filter page sent for this form
SearchedWith(r, form) ==
  CasesRequested(r) /\ searches(form) /\ reqQuery[r] = searchParams(form)

\* the criteria of the form: every field but the limit
criteria == DOMAIN searchNames \ {"limit"}

\* C39: every search criterion the filter page sends to /cases (litigation,
\* status, name, email, phone, date, tag) is read by the /cases handler and
\* is part of the list request to the remote
C39_CriteriaReachRemote ==
  \A r \in Reqs : \A form \in SearchForms :
    SearchedWith(r, form) =>
      \A field \in filled(form) \cap criteria : SentToRemote(r, form, field)

\* a search by litigation whose list request carries the limit only
C39_LitigationDropped ==
  \E r \in Reqs :
    /\ SearchedWith(r, [EmptyForm EXCEPT !.litigationId = <<" ", "7">>, !.limit = <<"5">>])
    /\ reqQuery[r] = [litigationId |-> <<"7">>, limit |-> <<"5">>]
    /\ calls[r][1].params = [limit |-> Str(<<"5">>)]

\* the /cases handlers of the later revisions read the names the filter page
\* writes: each criterion of a form arrives in the parameters of their list
\* requests
C39_LaterRevisionsReadThem ==
  \A form \in SearchForms : \A field \in filled(form) \cap criteria :
    LET name == queryNames[searchNames[field]]
    IN /\ name \in DOMAIN pagedParams(searchParams(form))
       /\ pagedParams(searchParams(form))[name] = Str(inputValue(form, field))

(***************************************************************************)
(* The upload page (src/unnamed/part_001, lines 1-337): the CSV preview,   *)
(* the selection of rows and the upload of the selected rows.  A CSV text  *)
(* is the sequence of its lines; the header line is given as the sequence  *)
(* of its names, a data line as a JavaScript string.                       *)
(***************************************************************************)
\* parseCSVLine: a quote switches inQuotes and is dropped, a comma outside
\* quotes ends the value
RECURSIVE parseLineFrom(_, _, _)
parseLineFrom(line, current, inQuotes) ==
  IF line = <<>> THEN <<current>>
  ELSE IF Head(line) = "\"" THEN parseLineFrom(Tail(line), current, ~inQuotes)
  ELSE IF Head(line) = "," /\ ~inQuotes
    THEN <<current>> \o parseLineFrom(Tail(line), <<>>, inQuotes)
  ELSE parseLineFrom(Tail(line), Append(current, Head(line)), inQuotes)

parseCSVLine(line) == parseLineFrom(line, <<>>, FALSE)

\* .replace(/^"|"$/g, '')
stripQuotes(s) ==
  LET opened == IF s # <<>> /\ Head(s) = "\"" THEN Tail(s) ELSE s
  IN IF opened # <<>> /\ Last(opened) = "\"" THEN Front(opened) ELSE opened

\* text.split('\n').filter(line => line.trim())
nonBlankLines(text) ==
  LET NonBlank(line) == trim(line) # <<>>
  IN SelectSeq(text, NonBlank)

\* the row object of a line: row[header] = values[index].trim().replace(...)
rowObject(headers, values) ==
  [header \in {headers[k] : k \in DOMAIN headers} |->
     stripQuotes(trim(values[CHOOSE k \in DOMAIN headers : headers[k] = header]))]

\* the loop of parseCSV from line i on: a line with as many values as there
\* are headers is pushed with its line number, any other line is passed over
RECURSIVE parsedFrom(_, _)
parsedFrom(lines, n) ==
  IF n >= Len(lines) THEN <<>>
  ELSE LET values == parseCSVLine(lines[n + 1])
       IN (IF Len(values) = Len(Head(lines))
             THEN <<[data |-> rowObject(Head(lines), values), selected |-> TRUE, index |-> n]>>
             ELSE <<>>)
            \o parsedFrom(lines, n + 1)

parseCSV(text) == parsedFrom(nonBlankLines(text), 1)

\* a count that takes every row for selected
countRows(data) == Len(data)

\* csvData.filter(row => row.selected).length
countSelected(data) == Cardinality({k \in DOMAIN data : data[k].selected})

updateSelectedCount(data) ==
  /\ selectedCount' = [count |-> countSelected(data), of |-> Len(data)]
  /\ disabled' = (countSelected(data) = 0)

\* a selection that takes every row
everyRow(data) == [k \in DOMAIN data |-> data[k].data]

\* csvData.filter(row => row.selected).map(row => row.data)
selectedRows(data) ==
  LET Selected(row) == row.selected
      chosen == SelectSeq(data, Selected)
  IN [k \in DOMAIN chosen |-> chosen[k].data]

\* the Row cells of the rows that selectedRows takes
selectedRowNumbers(data) ==
  LET Selected(row) == row.selected
      chosen == SelectSeq(data, Selected)
  IN [k \in DOMAIN chosen |-> chosen[k].index]

\* csvData.forEach(row => row.selected = checked)
allMarked(data, checked) == [k \in DOMAIN data |-> [data[k] EXCEPT !.selected = checked]]

\* the variables of the server
server ==
  <<env, rawRow, mapResult, endpoint, reqQuery, pc, frame, file, res, fetch, history, pacing>>

\* the click on previewBtn: parseCSV(text); displayTable(); the section is
\* shown.  An empty text makes parseCSV throw before anything is written.
PreviewFile(text) ==
  /\ IF nonBlankLines(text) = <<>> THEN UNCHANGED preview
     ELSE /\ csvData' = parseCSV(text)
          /\ rowCheckbox' = [k \in DOMAIN csvData' |-> csvData'[k].selected]
          /\ selectAllCheckbox' = TRUE
          /\ updateSelectedCount(csvData')
          /\ hidden' = FALSE
          /\ UNCHANGED <<click, posting, postedFrom, resultsDiv>>
  /\ UNCHANGED server

\* the click on selectAllBtn
SelectAll ==
  /\ ~hidden
  /\ csvData' = allMarked(csvData, TRUE)
  /\ rowCheckbox' = [k \in DOMAIN rowCheckbox |-> TRUE]
  /\ selectAllCheckbox' = TRUE
  /\ updateSelectedCount(csvData')
  /\ UNCHANGED <<hidden, click, posting, postedFrom, resultsDiv, server>>

\* the click on deselectAllBtn
DeselectAll ==
  /\ ~hidden
  /\ csvData' = allMarked(csvData, FALSE)
  /\ rowCheckbox' = [k \in DOMAIN rowCheckbox |-> FALSE]
  /\ selectAllCheckbox' = FALSE
  /\ updateSelectedCount(csvData')
  /\ UNCHANGED <<hidden, click, posting, postedFrom, resultsDiv, server>>

\* the change event of the header checkbox, which the browser has switched
HeaderCheckbox ==
  /\ ~hidden
  /\ selectAllCheckbox' = ~selectAllCheckbox
  /\ csvData' = allMarked(csvData, selectAllCheckbox')
  /\ rowCheckbox' = [k \in DOMAIN rowCheckbox |-> selectAllCheckbox']
  /\ updateSelectedCount(csvData')
  /\ UNCHANGED <<hidden, click, posting, postedFrom, resultsDiv, server>>

\* the change event of the checkbox of table row k, which the browser has
\* switched; data-index is k - 1
ToggleRow(k) ==
  /\ ~hidden
  /\ k \in DOMAIN rowCheckbox
  /\ rowCheckbox' = [rowCheckbox EXCEPT ![k] = ~@]
  /\ csvData' = [csvData EXCEPT ![k].selected = rowCheckbox'[k]]
  /\ updateSelectedCount(csvData')
  /\ UNCHANGED <<selectAllCheckbox, hidden, click, posting, postedFrom, resultsDiv, server>>

\* the click on cancelPreviewBtn
CancelPreview ==
  /\ ~hidden
  /\ hidden' = TRUE
  /\ csvData' = <<>>
  /\ UNCHANGED <<rowCheckbox, selectAllCheckbox, selectedCount, disabled, click, posting,
                 postedFrom, resultsDiv, server>>

\* the click on uploadSelectedBtn up to its await fetch(...); the request
\* goes to the free slot r of the server
ClickUpload(r) ==
  /\ ~hidden
  /\ ~disabled
  /\ pc[r] = "idle"
  /\ click[r] # "sent"
  /\ IF selectedRows(csvData) = <<>> THEN UNCHANGED preview
     ELSE /\ disabled' = TRUE
          /\ resultsDiv' = [shows |-> "nothing"]
          /\ click' = [click EXCEPT ![r] = "sent"]
          /\ posting' = [posting EXCEPT ![r] = selectedRows(csvData)]
          /\ postedFrom' = [postedFrom EXCEPT ![r] = selectedRowNumbers(csvData)]
          /\ UNCHANGED <<csvData, rowCheckbox, selectAllCheckbox, selectedCount, hidden>>
  /\ UNCHANGED server

\* the request reaches app.post('/upload-data')
Arrive(r) ==
  /\ click[r] = "sent"
  /\ pc[r] = "idle"
  /\ UploadData(r, [rows |-> posting[r]])

\* fetch rejects: the catch branch and finally
FetchFails(r) ==
  /\ click[r] = "sent"
  /\ pc[r] = "idle"
  /\ resultsDiv' = [shows |-> "error"]
  /\ disabled' = FALSE
  /\ click' = [click EXCEPT ![r] = "received"]
  /\ UNCHANGED <<csvData, rowCheckbox, selectAllCheckbox, selectedCount, hidden, posting,
                 postedFrom, server>>

\* "Row ${f.row}:" of a list item of the results
rowLabel(f) == f.row

\* the response is read: the results are shown, a success hides the
\* preview; finally the button is enabled
Receive(r) ==
  /\ click[r] = "sent"
  /\ pc[r] = "done"
  /\ IF res[r].status = 200
       THEN /\ resultsDiv' = [shows |-> "success",
                              failed |-> mapSeq(rowLabel, res[r].body.failures)]
            /\ hidden' = TRUE
       ELSE /\ resultsDiv' = [shows |-> "failed"]
            /\ UNCHANGED hidden
  /\ disabled' = FALSE
  /\ click' = [click EXCEPT ![r] = "received"]
  /\ UNCHANGED <<csvData, rowCheckbox, selectAllCheckbox, selectedCount, posting, postedFrom,
                 server>>

\* the exchange is over
Release(r) == click[r] = "received" /\ Close(r)

\* what the remote answers to the create calls of the page's uploads
PreviewOutcomes == {Accepted, [message |-> "Network Error"]}

HeaderLine == <<"litigation_id", "status_id">>

\* the CSV files a visitor previews
CsvTexts ==
  { <<>>,
    <<HeaderLine>>,
    <<HeaderLine, <<"7", ",", "3">> >>,
    <<HeaderLine, <<"7", ",", "3">>, <<",", "3">> >>,
    <<HeaderLine, <<"7">>, <<"\"", "7", ",", "8", "\"", ",", "3">>, <<",", "3">> >>,
    <<HeaderLine, <<",", "3">>, <<" ">>, <<" ", "7", ",", "3", ",">>, <<"7", ",", "3">> >> }

PageStep ==
  \/ \E text \in CsvTexts : PreviewFile(text)
  \/ SelectAll
  \/ DeselectAll
  \/ HeaderCheckbox
  \/ \E k \in 1..MaxRows : ToggleRow(k)
  \/ CancelPreview

\* one upload of the page at a time
ExchangeStep(r) ==
  \/ ClickUpload(r)
  \/ Arrive(r)
  \/ FetchFails(r)
  \/ Receive(r)
  \/ Release(r)
  \/ CreateCase(r)
  \/ \E outcome \in PreviewOutcomes : CreateSettles(r, outcome)
  \/ Collect(r)
  \/ DelayElapsed(r)
  \/ Respond(r)

NextPreview == PageStep \/ ExchangeStep("a")

SpecPreview == Init /\ [][NextPreview]_vars

(***************************************************************************)
(* C37: the selection of rows in the preview                               *)
(***************************************************************************)
\* the rows of the preview that are marked selected
Marked == {k \in DOMAIN csvData : csvData[k].selected}

\* the count on display is the number of marked rows and the upload button
\* is disabled exactly when there is none
CountFollowsMarks ==
  /\ selectedCount = [count |-> Cardinality(Marked), of |-> Len(csvData)]
  /\ disabled <=> Marked = {}

\* a step of the selection controls, or the display of a parsed file
Selecting ==
  \/ SelectAll
  \/ DeselectAll
  \/ HeaderCheckbox
  \/ \E k \in 1..MaxRows : ToggleRow(k)
  \/ \E text \in CsvTexts : nonBlankLines(text) # <<>> /\ PreviewFile(text)

\* post holds the data of the marked rows, each once, in the order of the file
MarkedInFileOrder(post) ==
  \E at \in [DOMAIN post -> DOMAIN csvData] :
    /\ \A j, k \in DOMAIN post : j < k => at[j] < at[k]
    /\ {at[j] : j \in DOMAIN post} = Marked
    /\ \A j \in DOMAIN post : post[j] = csvData[at[j]].data

\* the click on upload sends its request in this step
Posts(r) == click[r] # "sent" /\ click'[r] = "sent"

\* the request of the page reaches the server in this step
Reaches(r) == click[r] = "sent" /\ pc[r] = "idle" /\ pc'[r] # "idle"

\* C37: after every select-all, deselect-all, header-checkbox and row toggle
\* (and when the table is first displayed) the count on display is the number
\* of rows marked selected and the upload button is disabled exactly when it
\* is zero; a click on upload posts exactly the marked rows, in file order,
\* to /upload-data, and never an empty list
C37_SelectionIsWhatIsPosted ==
  /\ [][Selecting => CountFollowsMarks']_vars
  /\ [][\A r \in Reqs : Posts(r) => posting'[r] # <<>> /\ MarkedInFileOrder(posting'[r])]_vars
  /\ [][\A r \in Reqs : Reaches(r) =>
          /\ endpoint'[r] = "/upload-data"
          /\ keyConfigured => rows'[r] = posting[r]]_vars

\* the second of two rows was deselected and the first one alone is being
\* uploaded
C37_Witness ==
  /\ ~hidden
  /\ Len(csvData) = 2 /\ Marked = {1}
  /\ selectedCount = [count |-> 1, of |-> 2]
  /\ click["a"] = "sent" /\ endpoint["a"] = "/upload-data"
  /\ rows["a"] = <<csvData[1].data>>

\* after an upload that failed the button is enabled again whatever the
\* selection has become in the meantime: nothing is selected and the button
\* can be clicked
C37_EnabledAfterFailedUpload ==
  ~hidden /\ ~disabled /\ Marked = {} /\ click["a"] = "received"

(***************************************************************************)
(* C40: the row numbers of the upload result                               *)
(***************************************************************************)
\* the results on display are those of the request in slot r
ResultsOf(r) ==
  click[r] = "received" /\ pc[r] = "done" /\ resultsDiv.shows = "success"

\* C40: the row number the upload result shows for a failed row is the Row
\* number that row had in the preview table, whatever rows were deselected
\* and whatever lines the parser dropped
C40_ResultRowIsPreviewRow ==
  \A r \in Reqs :
    ResultsOf(r) =>
      \A k \in DOMAIN failures[r] :
        resultsDiv.failed[k] = postedFrom[r][failures[r][k].index + 1]

\* the same for uploads of rows that the preview numbered 1, 2, ...: every
\* line of the file parsed and every row up to the last posted one selected
C40_AgreesWhenNothingLeftOut ==
  \A r \in Reqs :
    ResultsOf(r) /\ postedFrom[r] = [k \in DOMAIN postedFrom[r] |-> k] =>
      \A k \in DOMAIN failures[r] :
        resultsDiv.failed[k] = postedFrom[r][failures[r][k].index + 1]

C40_AgreesWitness ==
  \E r \in Reqs :
    /\ ResultsOf(r) /\ postedFrom[r] = <<1, 2>>
    /\ resultsDiv.failed = <<2>>

\* the first row was deselected; the second row, Row 2 of the preview, failed
\* and the result calls it Row 1
C40_RowTwoShownAsRowOne ==
  \E r \in Reqs :
    /\ ResultsOf(r)
    /\ postedFrom[r] = <<2>>
    /\ resultsDiv.failed = <<1>>


====
